---- MODULE Spec2Model ----
(***************************************************************************)
(* Chat Runner of AgentsChatGroup: mention scheduling, the per-session-     *)
(* agent pending queue, run supervision (exit watcher, stream bridge),      *)
(* cancellation and the event stream, modelled from                         *)
(* crates/services/src/services/chat_runner.rs and the db models.           *)
(*                                                                         *)
(* One session is modelled.  Every agent of Agents is a member of it, and   *)
(* a session agent is identified with its agent (unique per session).       *)
(* Each await point that separates a read of shared state from the write    *)
(* that depends on it is a separate action.                                 *)
(***************************************************************************)
EXTENDS Naturals, Sequences, FiniteSets

\* ------------------------------------------------------------------ bounds
\* user messages posted in the scheduler specification
MaxUserMsgs == 4
\* mention tasks under way when a user message is posted, scheduler specification
MaxActive == 2
\* stop_agent calls
MaxStops == 1
\* user messages posted in the cancellation specification
MaxCancelMsgs == 2
\* user messages posted in the stream specification
MaxStreamMsgs == 1
\* runs spawned in the chain specification
MaxChainRuns == 7
\* runs not yet finalized when another is spawned in the chain specification
MaxChainActive == 1
\* user messages of the queue specification
MaxQueueMsgs == 3
\* user messages of the status specification
MaxMetaMsgs == 2
\* runs spawned in the mention specification
MaxMentionRuns == 3
\* members of the session whose names are resolved
MaxMembers == 3
\* user messages of the approval specification
MaxApprovalMsgs == 3
\* user messages of the compaction specification
MaxCompactMsgs == 2

\* ------------------------------------------------------- program constants
MAX_AGENT_CHAIN_DEPTH == 5

Agents == {"a", "b", "c"}

\* the session's members in the order of find_all_for_session (created_at)
AgentOrder == <<"a", "b", "c">>

\* agents of the catalog (chat_agents) that are not members of the session
CatalogOnly == {"d"}

\* every string a mention can be: a member, a catalog agent outside the
\* session, the name of no agent, the reserved handle in two ASCII cases
Handles == Agents \cup CatalogOnly \cup {"zed", "you", "You"}

RESERVED_USER_HANDLE == "you"

\* names that differ from "bob" by ASCII case only, and one that differs more
CaseNames == {"bob", "Bob", "BOB", "amy"}

\* str::to_ascii_lowercase on the names of the model
to_ascii_lowercase(n) ==
    CASE n = "You" -> "you"
      [] n \in {"Bob", "BOB"} -> "bob"
      [] OTHER -> n

\* a comparison that tells the ASCII cases apart
eq_exact(x, y) == x = y

\* str::eq_ignore_ascii_case
eq_ignore_ascii_case(x, y) == to_ascii_lowercase(x) = to_ascii_lowercase(y)

NoValue == 0

\* indexes of the normalized entries an executor patches
EntryIndexes == {0}

\* ChatSessionAgentState
States == {"Idle", "Running", "WaitingApproval", "Dead"}

VARIABLES
    messages,             \* chat_messages rows of the session, in insertion order
    mention_statuses,     \* meta.mention_statuses of each message: agent -> status
    saState,              \* chat_session_agents.state
    agent_session_id,     \* chat_session_agents.agent_session_id (NoValue = NULL)
    agent_message_id,     \* chat_session_agents.agent_message_id (NoValue = NULL)
    pending_messages,     \* ChatRunner.pending_messages: agent -> queue of message ids
    cancellation_tokens,  \* ChatRunner.cancellation_tokens: agent -> run owning the token
    handlers,             \* run_agent_for_mention activations: message -> agent -> task
    runs,                 \* spawned executors with their watcher and bridge tasks
    subscribed,           \* a broadcast receiver exists for the session
    events,               \* what that receiver has been sent, in order
    enqueued,             \* history: message ids in the order of their first enqueue
    nstops,               \* history: number of stop_agent calls
    meta_writes,          \* update_mention_status calls between their read and their write
    background_compaction_inflight,  \* ChatRunner.background_compaction_inflight has the session
    compaction_tasks,     \* background compaction tasks spawned and not yet ended
    snapshot_calls,       \* spawn_background_context_compaction calls and their position
    args,                 \* the arguments of a call of a pure function
    returned,             \* what that call returned
    chat_runs,            \* chat_runs rows: session agent and run_index, in insertion order
    session_status,       \* chat_sessions.status
    create_calls,         \* chat::create_message calls between their session lookup and their end
    create_log,           \* history: the create_message calls that ended
    compression_cache,    \* COMPRESSION_RESULT_CACHE entry of the session
    compression_state,    \* chat_session_compression_states row of the session
    cutoff_files,         \* the cutoff_message_<n>.json files of the context directory
    compress_log,         \* history: the compress_messages_if_needed calls that ended
    context_file,         \* context/<sid>/messages.jsonl of the workspace
    streams,              \* ChatRunner.streams, the sender_for calls under way, the receivers
    summarization,        \* a try_summarize_with_agents call: its lists and its position
    compaction_ended      \* history: how the compaction task that ended last has ended

vars == <<messages, mention_statuses, saState, agent_session_id, agent_message_id,
          pending_messages, cancellation_tokens, handlers, runs, subscribed,
          events, enqueued, nstops, meta_writes, background_compaction_inflight,
          compaction_tasks, snapshot_calls, args, returned, chat_runs,
          session_status, create_calls, create_log, compression_cache,
          compression_state, cutoff_files, compress_log, context_file, streams,
          summarization, compaction_ended>>

\* the state that only the specifications of one race or one function change
side == <<meta_writes, background_compaction_inflight, compaction_tasks,
          snapshot_calls, args, returned>>

\* the rows, calls and files that only the specifications of run records, of
\* message creation and of compression change
created == <<session_status, create_calls, create_log>>

compression == <<compression_cache, compression_state, cutoff_files, compress_log>>

\* the workspace context file, the broadcast channels of the session, the
\* summarization call and the end of the last compaction task
shared == <<context_file, streams, summarization, compaction_ended>>

aside == <<chat_runs, created, compression, shared>>

\* ------------------------------------------------------------------ values

\* LogMsg items of a run's MsgStore
LogItem(kind, index, content, value) ==
    [kind |-> kind, index |-> index, content |-> content, value |-> value]

SessionIdMsg(v) == LogItem("SessionId", 0, <<>>, v)

MessageIdMsg(v) == LogItem("MessageId", 0, <<>>, v)

\* a JSON patch carrying an AssistantMessage entry at index i
JsonPatchMsg(i, c) == LogItem("JsonPatch", i, c, NoValue)

FinishedMsg == LogItem("Finished", 0, <<>>, NoValue)

\* ChatStreamEvent
Event(type, message, run, agent, content, delta, is_final, state) ==
    [type |-> type, message |-> message, run |-> run, agent |-> agent,
     content |-> content, delta |-> delta, is_final |-> is_final, state |-> state]

MessageNew(m) == Event("MessageNew", m, 0, "", <<>>, FALSE, FALSE, "")

AgentDelta(r, a, c, d, f) == Event("AgentDelta", 0, r, a, c, d, f, "")

AgentState(a, s) == Event("AgentState", 0, 0, a, <<>>, FALSE, FALSE, s)

MentionAcknowledged(m, a, s) == Event("MentionAcknowledged", m, 0, a, <<>>, FALSE, FALSE, s)

\* ChatRunner::emit: broadcast send; without a receiver the event is dropped
Emit(evs) == IF subscribed THEN events \o evs ELSE events

\* A JSON unsigned number of meta, as serde_json's as_u64 returns it: the pair
\* <<hi, lo>> is the 64-bit value hi * 2^32 + lo.
U64(hi, lo) == <<hi, lo>>

\* the cast `v as u32` keeps the low 32 bits
as_u32(v) == v[2]

\* v >= n for a 64-bit value v and a small n
U64AtLeast(v, n) == v[1] > 0 \/ v[2] >= n

\* ChatRunner::extract_chain_depth: a missing chain_depth reads as 0
\* (meta.chain_depth is the empty set when missing, else a singleton)
extract_chain_depth(msg) ==
    IF msg.chain_depth = {} THEN 0
    ELSE as_u32(CHOOSE d \in msg.chain_depth : TRUE)

\* A content is a sequence of tokens: <<"char", c>> is the character c,
\* <<"sendMessageTo", n>> is the whole directive [sendMessageTo@@n], and
\* <<"mention_failure", n>> is the text of a mention failure report for n.
Chars(s) == [i \in 1..Len(s) |-> <<"char", s[i]>>]

Directive(n) == <<"sendMessageTo", n>>

\* create_message_with_id: only an Active session accepts a message
SessionAccepts == session_status = "Active"

\* create_message_with_id: an Agent message's mentions are its directives' targets
directive_mentions(content) ==
    {content[i][2] : i \in {j \in 1..Len(content) : content[j][1] = "sendMessageTo"}}

NoHandler ==
    [pc |-> "none", snap |-> "", row_session |-> NoValue, owner |-> 0, run_index |-> 0,
     accepted |-> ""]

\* handle_message without its chain depth limit
TriggeredAtAnyDepth(msg) ==
    {n \in msg.mentions : ~(/\ msg.sender_type = "Agent"
                                 /\ eq_ignore_ascii_case(n, RESERVED_USER_HANDLE))}

\* ChatRunner::handle_message: the mentions that get a run_agent_for_mention task
Triggered(msg) ==
    IF extract_chain_depth(msg) >= MAX_AGENT_CHAIN_DEPTH
    THEN {}
    ELSE {n \in msg.mentions : ~(/\ msg.sender_type = "Agent"
                                 /\ eq_ignore_ascii_case(n, RESERVED_USER_HANDLE))}

SpawnedHandlers(msg) ==
    [a \in Handles |->
        IF a \in Triggered(msg) THEN [NoHandler EXCEPT !.pc = "resolve"] ELSE NoHandler]

NoStatuses == [a \in Handles |-> "none"]

\* ------------------------------------------------------------------- init

\* no compression entry is cached or persisted
NoEntry == [present |-> FALSE]

\* messages.jsonl as a writer left it: the full history or a compacted one,
\* of the first upto messages of the session (no file yet: upto is 0)
ContextFile(compacted, upto) == [compacted |-> compacted, upto |-> upto]

\* ChatRunner.streams has no entry for the session (entry 0), no channel was
\* created, no sender_for call is under way, nobody has subscribed
\* (history: sent is the channel of each event sent, with the receivers that
\* had subscribed before the emit was called)
NoStreams ==
    [entry |-> 0, channels |-> 0, calls |-> {}, receivers |-> <<>>, sent |-> <<>>]

\* no try_summarize_with_agents call was made
\* (history: tried are the candidates the loop has taken, spawned the ones a
\* summarization executor was spawned for)
NoSummarization ==
    [phase |-> "none", session_agents |-> <<>>, candidate_agents |-> <<>>,
     prioritized |-> <<>>, next |-> 1, tried |-> <<>>, spawned |-> <<>>,
     summary |-> FALSE]

InitCommon ==
    /\ messages = <<>>
    /\ mention_statuses = <<>>
    /\ saState = [a \in Agents |-> "Idle"]
    /\ agent_session_id = [a \in Agents |-> NoValue]
    /\ agent_message_id = [a \in Agents |-> NoValue]
    /\ pending_messages = [a \in Agents |-> <<>>]
    /\ cancellation_tokens = [a \in Agents |-> NoValue]
    /\ handlers = <<>>
    /\ runs = <<>>
    /\ events = <<>>
    /\ enqueued = <<>>
    /\ nstops = 0
    /\ meta_writes = {}
    /\ background_compaction_inflight = FALSE
    /\ compaction_tasks = 0
    /\ snapshot_calls = {}
    /\ chat_runs = <<>>
    /\ session_status = "Active"
    /\ create_calls = {}
    /\ create_log = <<>>
    /\ compression_cache = NoEntry
    /\ compression_state = NoEntry
    /\ cutoff_files = <<>>
    /\ compress_log = <<>>
    /\ context_file = ContextFile(FALSE, 0)
    /\ streams = NoStreams
    /\ summarization = NoSummarization
    /\ compaction_ended = "none"

\* no pure function is being called
NoCall == <<>>

Init == InitCommon /\ subscribed = FALSE /\ args = NoCall /\ returned = NoCall

\* ------------------------------------------------- routes::chat::messages

\* POST /messages: chat::create_message, then ChatRunner::handle_message
create_message(sender_type, sender_id, content, mentions, depth, run) ==
    [sender_type |-> sender_type, sender_id |-> sender_id, content |-> content,
     mentions |-> mentions, chain_depth |-> depth, run |-> run]

PostUserMessage(mentions, depth) ==
    LET msg == create_message("User", "", Chars(<<"g", "o">>), mentions, depth, 0)
        mid == Len(messages) + 1
    IN  /\ SessionAccepts
        /\ messages' = Append(messages, msg)
        /\ mention_statuses' = Append(mention_statuses, NoStatuses)
        /\ handlers' = Append(handlers, SpawnedHandlers(msg))
        /\ events' = Emit(<<MessageNew(mid)>>)
        /\ UNCHANGED <<saState, agent_session_id, agent_message_id, pending_messages,
                       cancellation_tokens, runs, subscribed, aside, side, enqueued, nstops>>

\* ------------------------------------------- ChatRunner::run_agent_for_mention

SetHandler(m, a, h) == [handlers EXCEPT ![m][a] = h]

\* the loop of resolve_session_agent_for_mention from member i on, ci_match
\* being what the members before i left: the name of the member found, or "none"
RECURSIVE resolve_scan(_, _, _, _)
resolve_scan(names, mention, i, ci_match) ==
    IF i > Len(names) THEN ci_match
    ELSE IF names[i] = mention THEN names[i]
    ELSE IF eq_ignore_ascii_case(names[i], mention)
         THEN IF ci_match # "none" THEN "none"
              ELSE resolve_scan(names, mention, i + 1, names[i])
    ELSE resolve_scan(names, mention, i + 1, ci_match)

\* ChatRunner::resolve_session_agent_for_mention: the member named by the mention
resolve_session_agent_for_mention(mention) == resolve_scan(AgentOrder, mention, 1, "none")

\* the first test of run_agent_for_mention
IsReservedMention(msg, mention) ==
    msg.sender_type = "Agent" /\ eq_ignore_ascii_case(mention, RESERVED_USER_HANDLE)

\* the text report_mention_failure gives its System message
mention_failure_text(agent_name, reason) == <<<<"mention_failure", agent_name, reason>>>>

\* the self-mention test made after the mention is resolved, and a test
\* that takes no mention for a self-mention
never_self_mention(msg, a) == FALSE

IsSelfMention(msg, a) == msg.sender_type = "Agent" /\ msg.sender_id = a

\* the task returns: a task run inline by process_pending_queue hands control
\* back to its stream bridge, which ends (Ok) or pops the next entry (Err)
ReturnTo(rs, owner, ok) ==
    IF owner = 0 THEN rs
    ELSE [rs EXCEPT ![owner].bridge = IF ok THEN "done" ELSE "queue"]

\* a mention task that ends without reporting anything
MentionDropped(m, n) ==
    /\ handlers' = SetHandler(m, n, [NoHandler EXCEPT !.pc = "done"])
    /\ runs' = ReturnTo(runs, handlers[m][n].owner, FALSE)
    /\ UNCHANGED <<messages, mention_statuses, events>>

\* the mention names no member: report_mention_failure under the name of the
\* catalog agent (found by find_by_name) or under the mention itself
MentionFails(m, n) ==
    LET h == handlers[m][n]
        reason == IF n \in CatalogOnly THEN "not configured" ELSE "not found"
        sys == create_message("System", "", mention_failure_text(n, reason), {}, {}, 0)
        posts == SessionAccepts
    IN  /\ mention_statuses' =
              IF posts
              THEN Append([mention_statuses EXCEPT ![m][n] = "failed"], NoStatuses)
              ELSE [mention_statuses EXCEPT ![m][n] = "failed"]
        /\ messages' = IF posts THEN Append(messages, sys) ELSE messages
        /\ handlers' =
              IF posts
              THEN Append(SetHandler(m, n, [NoHandler EXCEPT !.pc = "done"]),
                          SpawnedHandlers(sys))
              ELSE SetHandler(m, n, [NoHandler EXCEPT !.pc = "done"])
        /\ events' = Emit((IF n \in CatalogOnly
                           THEN <<MentionAcknowledged(m, n, "failed")>> ELSE <<>>)
                          \o (IF posts THEN <<MessageNew(Len(messages) + 1)>>
                              ELSE <<>>))
        /\ runs' = ReturnTo(runs, h.owner, FALSE)

\* the mention is resolved: the session agent row is read here
Resolve(m, a) ==
    LET member == resolve_session_agent_for_mention(a)
    IN  /\ handlers[m][a].pc = "resolve"
        /\ IF IsReservedMention(messages[m], a)
              \/ (member # "none" /\ IsSelfMention(messages[m], member))
           THEN /\ handlers' = SetHandler(m, a, [NoHandler EXCEPT !.pc = "done"])
                /\ runs' = ReturnTo(runs, handlers[m][a].owner, TRUE)
                /\ UNCHANGED <<messages, mention_statuses, events>>
           ELSE IF member = "none"
           THEN MentionFails(m, a)
           ELSE /\ handlers' = SetHandler(m, a, [handlers[m][a] EXCEPT
                                    !.pc = "resolved", !.snap = saState[member]])
                /\ UNCHANGED <<messages, mention_statuses, events, runs>>
        /\ UNCHANGED <<saState, agent_session_id, agent_message_id, pending_messages,
                       cancellation_tokens, subscribed, aside, side, enqueued, nstops>>

\* the row read by Resolve says Running: queue the message
Enqueue(m, a) ==
    /\ pending_messages' = [pending_messages EXCEPT ![a] = Append(@, m)]
    /\ events' = Emit(<<MentionAcknowledged(m, a, "received")>>)
    /\ mention_statuses' = [mention_statuses EXCEPT ![m][a] = "received"]
    /\ handlers' = SetHandler(m, a, [NoHandler EXCEPT !.pc = "done"])
    /\ runs' = ReturnTo(runs, handlers[m][a].owner, TRUE)
    /\ enqueued' = IF \E i \in 1..Len(enqueued) : enqueued[i] = m
                   THEN enqueued ELSE Append(enqueued, m)
    /\ UNCHANGED <<saState, agent_session_id, agent_message_id>>

\* the guard of the transition to Running, on the row read by Resolve
MayStart(snap) == snap # "Running"

\* otherwise ChatSessionAgent::update_state(Running), and the two events
\* ChatRun::next_run_index: COALESCE(MAX(run_index), 0) + 1 over the rows of
\* the session agent
next_run_index(a) ==
    LET indexes == {chat_runs[i].run_index :
                       i \in {j \in 1..Len(chat_runs) : chat_runs[j].session_agent = a}}
    IN  IF indexes = {} THEN 1
        ELSE (CHOOSE x \in indexes : \A y \in indexes : y <= x) + 1

\* the run directory session_agent_<id>_run_<nnnn>
run_records_prefix(a, run_index) == <<"session_agent", a, "run", run_index>>

\* update_state(Running), the running acknowledgement, and the first step of
\* the run setup: the read of the next run index
BecomeRunning(m, a) ==
    /\ saState' = [saState EXCEPT ![a] = "Running"]
    /\ events' = Emit(<<AgentState(a, "Running"),
                        MentionAcknowledged(m, a, "running")>>)
    /\ mention_statuses' = [mention_statuses EXCEPT ![m][a] = "running"]
    /\ handlers' = SetHandler(m, a, [handlers[m][a] EXCEPT
                        !.pc = "starting", !.snap = "Running",
                        !.row_session = agent_session_id[a],
                        !.run_index = next_run_index(a),
                        !.accepted = handlers[m][a].snap])
    /\ UNCHANGED <<pending_messages, runs, enqueued, agent_session_id, agent_message_id>>

Decide(m, a) ==
    /\ handlers[m][a].pc = "resolved"
    /\ IF MayStart(handlers[m][a].snap) THEN BecomeRunning(m, a) ELSE Enqueue(m, a)
    /\ UNCHANGED <<messages, cancellation_tokens, subscribed, aside, side, nstops>>

\* the description of an executor: what SpawnedChild carries and what it prints
Executor(token, signal, handles, patches) ==
    [token |-> token, signal |-> signal, handles |-> handles, patches |-> patches]

\* what the executor of run r will push into its MsgStore, in order
ScriptOf(ex, r) ==
    (IF ex.handles THEN <<SessionIdMsg(r), MessageIdMsg(r)>> ELSE <<>>)
        \o [i \in 1..Len(ex.patches) |-> JsonPatchMsg(0, ex.patches[i])]

\* spawn or spawn_follow_up: decided on the row returned by update_state
IsFollowUp(row_state, row_session) == row_state # "Dead" /\ row_session # NoValue

\* the state of a fresh run: spawn_stream_bridge and spawn_exit_watcher started
\* (history: ev_start is how many events had been sent when the run began,
\* cleared the messages its finalization removed from the queue as failed,
\* from_state and from_session the state read when the mention was accepted
\* and the session handle of the row at that time, failures which of the
\* child's exit status, the wait call and the exit signal reported a failure)
NewRun(a, m, h, ex, r) ==
    [agent |-> a, msg |-> m, chain_depth |-> extract_chain_depth(messages[m]),
     follow_up |-> IsFollowUp(h.snap, h.row_session),
     has_token |-> ex.token, cancelled |-> FALSE,
     failed_flag |-> FALSE, finished_sent |-> FALSE, finished_from_signal |-> FALSE,
     poller |-> "poll", signal |-> IF ex.signal THEN "wait" ELSE "none",
     script |-> ScriptOf(ex, r), store |-> <<>>, cursor |-> 0, bridge |-> "stream",
     local_session |-> NoValue, local_message |-> NoValue,
     last_content |-> [i \in EntryIndexes |-> <<>>], latest_assistant |-> <<>>,
     final |-> "none", finished_by |-> "none", signal_after_cancel |-> FALSE,
     ev_start |-> Len(events), cleared |-> {},
     from_state |-> h.accepted, from_session |-> h.row_session, failures |-> {}]

\* the run is set up (ChatRun::create with the index read before) and the
\* executor spawned
Start(m, a, ex) ==
    LET h == handlers[m][a]
        r == Len(runs) + 1
    IN  /\ h.pc = "starting"
        /\ chat_runs' = Append(chat_runs, [session_agent |-> a,
                                           run_index |-> h.run_index])
        /\ runs' = Append(ReturnTo(runs, h.owner, TRUE), NewRun(a, m, h, ex, r))
        /\ cancellation_tokens' =
              IF ex.token THEN [cancellation_tokens EXCEPT ![a] = r]
              ELSE cancellation_tokens
        /\ handlers' = SetHandler(m, a, [NoHandler EXCEPT !.pc = "done"])
        /\ UNCHANGED <<messages, mention_statuses, saState, agent_session_id,
                       agent_message_id, pending_messages, subscribed, created,
                       compression, shared, side, events, enqueued, nstops>>

\* setting the run up or spawning fails: report_mention_failure, then Dead
StartFail(m, a) ==
    LET h == handlers[m][a]
        sys == create_message("System", "", mention_failure_text(a, "start failed"),
                              {}, {}, 0)
        posts == SessionAccepts
    IN  /\ h.pc = "starting"
        /\ mention_statuses' =
              IF posts
              THEN Append([mention_statuses EXCEPT ![m][a] = "failed"], NoStatuses)
              ELSE [mention_statuses EXCEPT ![m][a] = "failed"]
        /\ messages' = IF posts THEN Append(messages, sys) ELSE messages
        /\ handlers' =
              IF posts
              THEN Append(SetHandler(m, a, [NoHandler EXCEPT !.pc = "done"]),
                          SpawnedHandlers(sys))
              ELSE SetHandler(m, a, [NoHandler EXCEPT !.pc = "done"])
        /\ saState' = [saState EXCEPT ![a] = "Dead"]
        /\ events' = Emit(<<MentionAcknowledged(m, a, "failed")>>
                          \o (IF posts THEN <<MessageNew(Len(messages) + 1)>>
                              ELSE <<>>)
                          \o <<AgentState(a, "Dead")>>)
        /\ runs' = ReturnTo(runs, h.owner, FALSE)
        /\ UNCHANGED <<agent_session_id, agent_message_id, pending_messages,
                       cancellation_tokens, subscribed, aside, side, enqueued, nstops>>

\* ------------------------------------------------ ChatRunner::spawn_exit_watcher

\* the executor prints its next output, which the normalizer pushes to the MsgStore
ExecEmit(r) ==
    /\ runs[r].script # <<>>
    /\ runs[r].bridge = "stream"
    /\ runs' = [runs EXCEPT ![r].store = Append(@, Head(runs[r].script)),
                            ![r].script = Tail(@)]
    /\ UNCHANGED <<messages, mention_statuses, saState, agent_session_id,
                   agent_message_id, pending_messages, cancellation_tokens, handlers,
                   subscribed, aside, side, events, enqueued, nstops>>

\* a watcher that publishes Finished without consulting finished_sent
AlwaysPublishes(run) == TRUE

\* finished_sent.swap(true) returned false: this task publishes Finished
WinsFinished(run) == ~run.finished_sent

\* the child-exit poller sees the child gone with a status ("success",
\* "failure"), or try_wait fails ("error": a Stderr line goes to the store)
ChildExit(r, status) ==
    LET run == runs[r]
        won == WinsFinished(run)
        logged == IF status = "error"
                  THEN Append(run.store, LogItem("Stderr", 0, <<>>, NoValue))
                  ELSE run.store
    IN  /\ run.poller = "poll"
        /\ runs' = [runs EXCEPT
              ![r].failed_flag = run.failed_flag \/ status # "success",
              ![r].failures = IF status = "success" THEN @
                              ELSE @ \cup {IF status = "error" THEN "wait" ELSE "status"},
              ![r].finished_sent = TRUE,
              ![r].store = IF won THEN Append(logged, FinishedMsg) ELSE logged,
              ![r].finished_by = IF won THEN "poller" ELSE run.finished_by,
              ![r].poller = "done"]
        /\ cancellation_tokens' =
              IF ~run.finished_from_signal
              THEN [cancellation_tokens EXCEPT ![run.agent] = NoValue]
              ELSE cancellation_tokens
        /\ UNCHANGED <<messages, mention_statuses, saState, agent_session_id,
                       agent_message_id, pending_messages, handlers, subscribed, aside, side,
                       events, enqueued, nstops>>

\* an exit_signal task that does not look at the cancellation token
never_cancelled(run) == FALSE

\* CancellationToken::is_cancelled on the run's own token
manually_cancelled(run) == run.has_token /\ run.cancelled

\* the exit_signal task receives the executor's result (or its sender is dropped)
ExitSignal(r, result) ==
    LET run == runs[r]
        ignored == result = "dropped" \/ manually_cancelled(run)
        won == ~ignored /\ WinsFinished(run)
    IN  /\ run.signal = "wait"
        /\ runs' = [runs EXCEPT
              ![r].failed_flag = run.failed_flag \/ result = "failure",
              ![r].failures = IF result = "failure" THEN @ \cup {"signal"} ELSE @,
              ![r].finished_from_signal = run.finished_from_signal \/ ~ignored,
              ![r].finished_sent = run.finished_sent \/ ~ignored,
              ![r].store = IF won THEN Append(run.store, FinishedMsg) ELSE run.store,
              ![r].finished_by = IF won THEN "signal" ELSE run.finished_by,
              ![r].signal_after_cancel =
                  result # "dropped" /\ run.has_token /\ run.cancelled,
              ![r].signal = "done"]
        /\ cancellation_tokens' =
              IF ~ignored
              THEN [cancellation_tokens EXCEPT ![run.agent] = NoValue]
              ELSE cancellation_tokens
        /\ UNCHANGED <<messages, mention_statuses, saState, agent_session_id,
                       agent_message_id, pending_messages, handlers, subscribed, aside, side,
                       events, enqueued, nstops>>

\* ---------------------------------------------------- ChatRunner::stop_agent

StopAgent(a) ==
    LET r == cancellation_tokens[a]
    IN  /\ runs' = IF r # NoValue THEN [runs EXCEPT ![r].cancelled = TRUE] ELSE runs
        /\ saState' = [saState EXCEPT ![a] = "Dead"]
        /\ events' = Emit(<<AgentState(a, "Dead")>>)
        /\ cancellation_tokens' = [cancellation_tokens EXCEPT ![a] = NoValue]
        /\ nstops' = nstops + 1
        /\ UNCHANGED <<messages, mention_statuses, agent_session_id,
                       agent_message_id, pending_messages, handlers, subscribed, aside, side,
                       enqueued>>

\* ----------------------------------------------- ChatRunner::spawn_stream_bridge

\* str::starts_with (never_starts_with: a test that never finds the prefix)
never_starts_with(cur, prev) == FALSE
starts_with(cur, prev) == Len(prev) <= Len(cur) /\ SubSeq(cur, 1, Len(prev)) = prev

\* the bridge task's view while it consumes items: its run record (with the
\* task's locals), the two handle columns it may write, the events it sends
BridgeView(run, sid, mid) == [run |-> run, sid |-> sid, mid |-> mid, evs |-> <<>>]

\* ChatRunner::process_stream_patch for an AssistantMessage entry, or for a
\* Thinking entry (an item with a value), which is no assistant content
process_stream_patch(view, r, item) ==
    LET current == item.content
        previous == view.run.last_content[item.index]
        is_delta == starts_with(current, previous)
        delta == IF is_delta THEN SubSeq(current, Len(previous) + 1, Len(current))
                 ELSE current
    IN  [view EXCEPT
            !.run.last_content[item.index] = current,
            !.run.latest_assistant = IF item.value # NoValue THEN @ ELSE current,
            !.evs = IF delta # <<>>
                    THEN Append(@, AgentDelta(r, view.run.agent, delta, is_delta, FALSE))
                    ELSE @]

\* one arm of the match on the next LogMsg
ApplyItem(view, r, item) ==
    CASE item.kind = "SessionId" ->
            IF view.run.local_session # item.value
            THEN [view EXCEPT !.run.local_session = item.value, !.sid = item.value]
            ELSE view
      [] item.kind = "MessageId" ->
            IF view.run.local_message # item.value
            THEN [view EXCEPT !.run.local_message = item.value, !.mid = item.value]
            ELSE view
      [] item.kind = "JsonPatch" -> process_stream_patch(view, r, item)
      [] OTHER -> view

\* the drain loop after Finished: the items already behind it in the store
RECURSIVE Drain(_, _, _)
Drain(view, r, items) ==
    IF items = <<>> THEN view
    ELSE Drain(ApplyItem(view, r, Head(items)), r, Tail(items))

\* the bridge consumes the next item of the stream, not yet Finished
BridgeItem(r) ==
    LET run == runs[r]
        a == run.agent
        item == run.store[run.cursor + 1]
        view == ApplyItem(BridgeView([run EXCEPT !.cursor = @ + 1],
                                     agent_session_id[a], agent_message_id[a]), r, item)
    IN  /\ run.bridge = "stream"
        /\ run.cursor < Len(run.store)
        /\ item.kind # "Finished"
        /\ runs' = [runs EXCEPT ![r] = view.run]
        /\ agent_session_id' = [agent_session_id EXCEPT ![a] = view.sid]
        /\ agent_message_id' = [agent_message_id EXCEPT ![a] = view.mid]
        /\ events' = Emit(view.evs)
        /\ UNCHANGED <<messages, mention_statuses, saState, pending_messages,
                       cancellation_tokens, handlers, subscribed, aside, side, enqueued, nstops>>

\* ChatRunner::apply_reply_prefix
apply_reply_prefix(content) == content

\* final_content.trim().is_empty()
IsBlank(content) == \A i \in 1..Len(content) : content[i] = <<"char", " ">>

\* the chain_depth written to the run's meta and so to its agent message
ReplyChainDepth(chain_depth) == chain_depth + 1

\* a finalization that sends the final delta before the agent message
FinalDeltaFirst(r, a, m, posted, latest, final_state, status) ==
    <<AgentDelta(r, a, latest, FALSE, TRUE)>> \o posted \o
        <<AgentState(a, final_state), MentionAcknowledged(m, a, status)>>

\* what finalization sends, in order: the agent message (through
\* handle_message), the final delta, the terminal state, the terminal status
FinalizeEvents(r, a, m, posted, latest, final_state, status) ==
    posted \o <<AgentDelta(r, a, latest, FALSE, TRUE),
                AgentState(a, final_state),
                MentionAcknowledged(m, a, status)>>

\* the final state of a run, from the failed flag read at finalization
\* (always_idle: a finalization that takes every run for a success)
always_idle(failed) == "Idle"
final_state_of(failed) == IF failed THEN "Dead" ELSE "Idle"

\* the bridge reads Finished: drain, clear the handles of a failed run, post
\* the agent message and hand it to handle_message, write the final state
BridgeFinish(r) ==
    LET run == runs[r]
        a == run.agent
        view == Drain(BridgeView(run, agent_session_id[a], agent_message_id[a]), r,
                      SubSeq(run.store, run.cursor + 2, Len(run.store)))
        failed == view.run.failed_flag
        content == apply_reply_prefix(view.run.latest_assistant)
        posts == ~IsBlank(content) /\ SessionAccepts
        reply == create_message("Agent", a, content, directive_mentions(content),
                                {U64(0, ReplyChainDepth(run.chain_depth))}, r)
        mid == Len(messages) + 1
        final_state == final_state_of(failed)
        status == IF final_state = "Dead" THEN "failed" ELSE "completed"
    IN  /\ run.bridge = "stream"
        /\ run.cursor < Len(run.store)
        /\ run.store[run.cursor + 1].kind = "Finished"
        /\ messages' = IF posts THEN Append(messages, reply) ELSE messages
        /\ mention_statuses' =
              [(IF posts THEN Append(mention_statuses, NoStatuses) ELSE mention_statuses)
                  EXCEPT ![run.msg][a] = status]
        /\ handlers' = IF posts THEN Append(handlers, SpawnedHandlers(reply)) ELSE handlers
        /\ events' = Emit(view.evs \o
              FinalizeEvents(r, a, run.msg, IF posts THEN <<MessageNew(mid)>> ELSE <<>>,
                             view.run.latest_assistant, final_state, status))
        /\ saState' = [saState EXCEPT ![a] = final_state]
        /\ agent_session_id' =
              [agent_session_id EXCEPT ![a] = IF failed THEN NoValue ELSE view.sid]
        /\ agent_message_id' =
              [agent_message_id EXCEPT ![a] = IF failed THEN NoValue ELSE view.mid]
        /\ runs' = [runs EXCEPT ![r] = [view.run EXCEPT
              !.cursor = Len(run.store),
              !.local_session = IF failed THEN NoValue ELSE @,
              !.local_message = IF failed THEN NoValue ELSE @,
              !.final = final_state,
              !.bridge = "queue"]]
        /\ UNCHANGED <<pending_messages, cancellation_tokens, subscribed, aside, side, enqueued,
                       nstops>>

\* ChatRunner::process_pending_queue: pop the head and run it inline
process_pending_queue(r, a) ==
    LET queue == pending_messages[a]
    IN  IF queue # <<>>
        THEN /\ pending_messages' = [pending_messages EXCEPT ![a] = Tail(queue)]
             /\ handlers' = SetHandler(Head(queue), a,
                                [NoHandler EXCEPT !.pc = "resolve", !.owner = r])
             /\ runs' = [runs EXCEPT ![r].bridge = "inline"]
             /\ UNCHANGED <<mention_statuses, events>>
        ELSE /\ runs' = [runs EXCEPT ![r].bridge = "done"]
             /\ UNCHANGED <<pending_messages, handlers, mention_statuses, events>>

\* a finalization that leaves the queue as it is
keep_pending_queue(r, a) ==
    /\ runs' = [runs EXCEPT ![r].bridge = "done"]
    /\ UNCHANGED <<pending_messages, handlers, mention_statuses, events>>

\* ChatRunner::clear_pending_queue_on_failure: fail every queued message
clear_pending_queue_on_failure(r, a) ==
    LET queue == pending_messages[a]
        queued == {queue[i] : i \in 1..Len(queue)}
    IN  /\ pending_messages' = [pending_messages EXCEPT ![a] = <<>>]
        /\ mention_statuses' =
              [m \in DOMAIN mention_statuses |->
                  IF m \in queued THEN [mention_statuses[m] EXCEPT ![a] = "failed"]
                  ELSE mention_statuses[m]]
        /\ events' = Emit([i \in 1..Len(queue) |->
                              MentionAcknowledged(queue[i], a, "failed")])
        /\ runs' = [runs EXCEPT ![r].bridge = "done", ![r].cleared = queued]
        /\ UNCHANGED handlers

\* the end of finalization (and where a failed inline start resumes)
BridgeQueue(r) ==
    /\ runs[r].bridge = "queue"
    /\ IF runs[r].final = "Idle"
       THEN process_pending_queue(r, runs[r].agent)
       ELSE clear_pending_queue_on_failure(r, runs[r].agent)
    /\ UNCHANGED <<messages, saState, agent_session_id, agent_message_id,
                   cancellation_tokens, subscribed, aside, side, enqueued, nstops>>

\* ------------------------------------------- ChatRunner::update_mention_status

\* update_mention_status(m, a, status) as its caller awaits it: the call has
\* not yet read the message (find_by_id); cont says what the caller does when
\* the call returns ("start": go on to set the run up; "return": the task ends)
MetaCall(m, a, status, cont, owner) ==
    [msg |-> m, agent |-> a, status |-> status, read |-> FALSE, snap |-> NoStatuses,
     cont |-> cont, owner |-> owner]

\* ChatMessage::find_by_id: the call copies the message's meta
MetaRead(w) ==
    /\ w \in meta_writes
    /\ ~w.read
    /\ meta_writes' = (meta_writes \ {w}) \cup
                          {[w EXCEPT !.read = TRUE, !.snap = mention_statuses[w.msg]]}
    /\ UNCHANGED <<messages, mention_statuses, saState, agent_session_id,
                   agent_message_id, pending_messages, cancellation_tokens, handlers,
                   runs, subscribed, aside, events, enqueued, nstops,
                   background_compaction_inflight, compaction_tasks, snapshot_calls,
                   args, returned>>

\* ChatMessage::update_meta: the copy, with the one entry inserted, replaces
\* the message's meta; then the caller goes on
MetaWrite(w) ==
    /\ w \in meta_writes
    /\ w.read
    /\ mention_statuses' =
          [mention_statuses EXCEPT ![w.msg] = [w.snap EXCEPT ![w.agent] = w.status]]
    /\ meta_writes' = meta_writes \ {w}
    /\ IF w.cont = "start"
       THEN /\ handlers' = SetHandler(w.msg, w.agent,
                               [handlers[w.msg][w.agent] EXCEPT
                                   !.pc = "starting",
                                   !.run_index = next_run_index(w.agent)])
            /\ UNCHANGED runs
       ELSE /\ runs' = ReturnTo(runs, w.owner, TRUE)
            /\ UNCHANGED handlers
    /\ UNCHANGED <<messages, saState, agent_session_id, agent_message_id,
                   pending_messages, cancellation_tokens, subscribed, aside, events, enqueued,
                   nstops, background_compaction_inflight, compaction_tasks,
                   snapshot_calls, args, returned>>

\* Decide up to the await of update_mention_status: the row says Running and
\* the message is queued and acknowledged, or the agent is moved to Running
\* and the two events are sent; the status is persisted by the call left behind
DecideThenPersist(m, a) ==
    LET h == handlers[m][a]
    IN  /\ h.pc = "resolved"
        /\ IF MayStart(h.snap)
           THEN /\ saState' = [saState EXCEPT ![a] = "Running"]
                /\ events' = Emit(<<AgentState(a, "Running"),
                                    MentionAcknowledged(m, a, "running")>>)
                /\ handlers' = SetHandler(m, a, [h EXCEPT
                                    !.pc = "persisting", !.snap = "Running",
                                    !.row_session = agent_session_id[a],
                                    !.accepted = h.snap])
                /\ meta_writes' = meta_writes \cup {MetaCall(m, a, "running", "start", 0)}
                /\ UNCHANGED <<pending_messages, enqueued>>
           ELSE /\ pending_messages' = [pending_messages EXCEPT ![a] = Append(@, m)]
                /\ events' = Emit(<<MentionAcknowledged(m, a, "received")>>)
                /\ handlers' = SetHandler(m, a, [NoHandler EXCEPT !.pc = "done"])
                /\ meta_writes' = meta_writes \cup
                                      {MetaCall(m, a, "received", "return", h.owner)}
                /\ enqueued' = IF \E i \in 1..Len(enqueued) : enqueued[i] = m
                               THEN enqueued ELSE Append(enqueued, m)
                /\ UNCHANGED saState
        /\ UNCHANGED <<messages, mention_statuses, agent_session_id, agent_message_id,
                       cancellation_tokens, runs, subscribed, aside, nstops,
                       background_compaction_inflight, compaction_tasks,
                       snapshot_calls, args, returned>>

\* ------------------------- ChatRunner::spawn_background_context_compaction

\* the call made by the task of mention (m, a) while it sets its run up
SnapshotCall(m, a, pc) == [msg |-> m, agent |-> a, pc |-> pc]

\* build_context_snapshot writes the full history to messages.jsonl and calls
\* spawn_background_context_compaction; contains_key: the call returns if the
\* session has a task in flight
CompactionCheck(m, a) ==
    /\ handlers[m][a].pc = "starting"
    /\ \A c \in snapshot_calls : ~(c.msg = m /\ c.agent = a)
    /\ context_file' = ContextFile(FALSE, Len(messages))
    /\ snapshot_calls' = snapshot_calls \cup
          {SnapshotCall(m, a, IF background_compaction_inflight THEN "returned"
                              ELSE "checked")}
    /\ UNCHANGED <<messages, mention_statuses, saState, agent_session_id,
                   agent_message_id, pending_messages, cancellation_tokens, handlers,
                   runs, subscribed, chat_runs, created, compression, streams,
                   summarization, compaction_ended, events,
                   enqueued, nstops, meta_writes, background_compaction_inflight,
                   compaction_tasks, args, returned>>

\* insert, then tokio::spawn of the compaction task
CompactionSpawn(m, a) ==
    /\ SnapshotCall(m, a, "checked") \in snapshot_calls
    /\ snapshot_calls' = (snapshot_calls \ {SnapshotCall(m, a, "checked")})
                             \cup {SnapshotCall(m, a, "returned")}
    /\ background_compaction_inflight' = TRUE
    /\ compaction_tasks' = compaction_tasks + 1
    /\ UNCHANGED <<messages, mention_statuses, saState, agent_session_id,
                   agent_message_id, pending_messages, cancellation_tokens, handlers,
                   runs, subscribed, aside, events, enqueued, nstops, meta_writes, args,
                   returned>>

\* the CompressionWarning event of a truncated history
CompressionWarningEvent == Event("CompressionWarning", 0, 0, "", <<>>, FALSE, FALSE, "")

\* what the task leaves in messages.jsonl: the compacted history when
\* build_compacted_context returned one, else what was there
compacted_context_file(outcome) ==
    IF outcome \in {"summarized", "truncated"} THEN ContextFile(TRUE, Len(messages))
    ELSE context_file

\* the last statement of the task, behind both arms of the match:
\* background_compaction_inflight.remove(&session_id)
\* (kept_on_failure: the Err arm leaves the session in the map)
kept_on_failure(outcome) == outcome = "failed"
inflight_after(outcome) == FALSE

\* a compaction task ends: build_compacted_context failed, or left the history
\* as it is, or returned a summarized or a truncated history, which the task
\* writes to messages.jsonl (a truncation is reported with a warning); then
\* the task removes the session from the map
CompactionEnds(outcome) ==
    /\ compaction_tasks > 0
    /\ context_file' = compacted_context_file(outcome)
    /\ events' = IF outcome = "truncated" THEN Emit(<<CompressionWarningEvent>>)
                 ELSE events
    /\ compaction_tasks' = compaction_tasks - 1
    /\ background_compaction_inflight' = inflight_after(outcome)
    /\ compaction_ended' = outcome
    /\ UNCHANGED <<messages, mention_statuses, saState, agent_session_id,
                   agent_message_id, pending_messages, cancellation_tokens, handlers,
                   runs, subscribed, chat_runs, created, compression, streams,
                   summarization, enqueued,
                   nstops, meta_writes, snapshot_calls, args, returned>>

\* ------------------------------------------------------------ specifications

Mentions == {<<m, a>> : m \in DOMAIN handlers, a \in Handles}

UserMessages == {m \in DOMAIN messages : messages[m].sender_type = "User"}

\* mentions whose run_agent_for_mention task is under way
ActiveHandlers ==
    {p \in Mentions : handlers[p[1]][p[2]].pc \in {"resolve", "resolved", "starting"}}

\* runs whose stream bridge task has not ended
UnfinishedRuns == {r \in DOMAIN runs : runs[r].bridge # "done"}

\* no mention task is between its read of the session agent row and its return
NoTaskMidway ==
    \A p \in Mentions : handlers[p[1]][p[2]].pc \notin {"resolved", "starting"}

\* the steps of the mention tasks and of the finalization of runs
SchedulerStep(executors) ==
    \/ \E p \in Mentions : Resolve(p[1], p[2])
    \/ \E p \in Mentions : Decide(p[1], p[2])
    \/ \E p \in Mentions, ex \in executors : Start(p[1], p[2], ex)
    \/ \E r \in DOMAIN runs : BridgeFinish(r)
    \/ \E r \in DOMAIN runs : BridgeQueue(r)

\* Scheduler specification: one agent is mentioned by several user messages,
\* at most MaxActive of them being handled at a time; its executors print
\* nothing and exit with either status.
SchedExecutors == {Executor(TRUE, FALSE, FALSE, <<>>)}

Next ==
    \/ /\ Cardinality(UserMessages) < MaxUserMsgs
       /\ Cardinality(ActiveHandlers) < MaxActive
       /\ PostUserMessage({"a"}, {})
    \/ SchedulerStep(SchedExecutors)
    \/ \E r \in DOMAIN runs, st \in {"success", "failure"} : ChildExit(r, st)

Spec == Init /\ [][Next]_vars

\* the tasks of a run: its executor, its exit watcher, its stream bridge
RunStep(statuses, results) ==
    \/ \E r \in DOMAIN runs : ExecEmit(r)
    \/ \E r \in DOMAIN runs : BridgeItem(r)
    \/ \E r \in DOMAIN runs, st \in statuses : ChildExit(r, st)
    \/ \E r \in DOMAIN runs, res \in results : ExitSignal(r, res)

\* Cancellation specification: one agent is mentioned by user messages that
\* arrive while no mention task is under way; its executors report their
\* handles and signal their exit; runs may fail to start and may be stopped.
CancelExecutors == {Executor(TRUE, TRUE, TRUE, <<>>)}

NextCancel ==
    \/ /\ Cardinality(UserMessages) < MaxCancelMsgs
       /\ ActiveHandlers = {}
       /\ PostUserMessage({"a"}, {})
    \/ SchedulerStep(CancelExecutors)
    \/ \E p \in Mentions : StartFail(p[1], p[2])
    \/ RunStep({"success", "failure"}, {"success", "failure", "dropped"})
    \/ /\ nstops < MaxStops
       /\ StopAgent("a")

SpecCancel == Init /\ [][NextCancel]_vars

\* Stream specification: a subscriber listens while one agent is mentioned; its
\* executors may report handles, print an assistant message and signal their
\* exit, and exit with either status; runs may fail to start and may be stopped.
InitStream == InitCommon /\ subscribed = TRUE /\ args = NoCall /\ returned = NoCall

Hi == Chars(<<"h", "i">>)

StreamExecutors ==
    {Executor(TRUE, sig, h, p) : sig \in BOOLEAN, h \in BOOLEAN, p \in {<<>>, <<Hi>>}}

NextStream ==
    \/ /\ Cardinality(UserMessages) < MaxStreamMsgs
       /\ PostUserMessage({"a"}, {})
    \/ SchedulerStep(StreamExecutors)
    \/ \E p \in Mentions : StartFail(p[1], p[2])
    \/ RunStep({"success", "failure"}, {"success", "failure", "dropped"})
    \/ /\ nstops < MaxStops
       /\ StopAgent("a")

SpecStream == InitStream /\ [][NextStream]_vars

\* Queue specification: a subscriber listens while one agent is mentioned by
\* user messages that arrive while no mention task is under way, so that they
\* queue up behind the run in flight; executors print nothing and exit with
\* either status.
NextQueue ==
    \/ /\ Cardinality(UserMessages) < MaxQueueMsgs
       /\ ActiveHandlers = {}
       /\ PostUserMessage({"a"}, {})
    \/ SchedulerStep(SchedExecutors)
    \/ \E r \in DOMAIN runs, st \in {"success", "failure"} : ChildExit(r, st)

SpecQueue == InitStream /\ [][NextQueue]_vars

\* Status specification: user messages mention one or two idle agents; every
\* update_mention_status call of a mention task is a read and a later write
\* of the message's meta, between which the other tasks run; executors print
\* nothing and end successfully.
NextMeta ==
    \/ /\ Cardinality(UserMessages) < MaxMetaMsgs
       /\ ActiveHandlers = {}
       /\ \E ms \in {{"a"}, {"a", "b"}} : PostUserMessage(ms, {})
    \/ \E p \in Mentions : Resolve(p[1], p[2])
    \/ \E p \in Mentions : DecideThenPersist(p[1], p[2])
    \/ \E w \in meta_writes : MetaRead(w)
    \/ \E w \in meta_writes : MetaWrite(w)
    \/ \E p \in Mentions, ex \in SchedExecutors : Start(p[1], p[2], ex)
    \/ \E r \in DOMAIN runs : ChildExit(r, "success")
    \/ \E r \in DOMAIN runs : BridgeFinish(r)
    \/ \E r \in DOMAIN runs : BridgeQueue(r)

SpecMeta == Init /\ [][NextMeta]_vars

\* a reply "ok" followed by one directive for each handle of targets, in order
ReplyTo(targets) ==
    Chars(<<"o", "k">>) \o [i \in 1..Len(targets) |-> Directive(targets[i])]

\* what the executor of agent a may route its reply to: nobody, itself and
\* the reserved handle, the reserved handle and another member, a name of no
\* agent, a catalog agent outside the session
MentionExecutors(a) ==
    {Executor(TRUE, FALSE, FALSE, <<ReplyTo(t)>>) :
        t \in {<<>>, <<a, "You">>, <<"you", "b">>, <<"zed">>, <<"d">>}}

\* the mentions a user message may carry in the mention specification
UserMentionSets == {{"a"}, {"zed"}, {"a", "zed"}, {"a", "d"}, {"zed", "d"}}

\* Mention specification: a subscriber listens; one user message mentions
\* members and names that are no members; the replies of the agents mention
\* themselves, the reserved handle, other members and names that are no members.
NextMention ==
    \/ /\ messages = <<>>
       /\ \E ms \in UserMentionSets : PostUserMessage(ms, {})
    \/ \E p \in Mentions : Resolve(p[1], p[2])
    \/ \E p \in Mentions : Decide(p[1], p[2])
    \/ /\ Len(runs) < MaxMentionRuns
       /\ \E p \in Mentions : \E ex \in MentionExecutors(p[2]) : Start(p[1], p[2], ex)
    \/ \E r \in DOMAIN runs : ExecEmit(r)
    \/ \E r \in DOMAIN runs : BridgeItem(r)
    \/ \E r \in DOMAIN runs : runs[r].script = <<>> /\ ChildExit(r, "success")
    \/ \E r \in DOMAIN runs : BridgeFinish(r)
    \/ \E r \in DOMAIN runs : BridgeQueue(r)

SpecMention == InitStream /\ [][NextMention]_vars

\* the state of a session agent row is set to WaitingApproval from outside the
\* runner (no code of the runner writes that state)
ExternalApproval(a) ==
    /\ saState[a] # "WaitingApproval"
    /\ saState' = [saState EXCEPT ![a] = "WaitingApproval"]
    /\ UNCHANGED <<messages, mention_statuses, agent_session_id, agent_message_id,
                   pending_messages, cancellation_tokens, handlers, runs, subscribed, aside,
                   side, events, enqueued, nstops>>

\* Approval specification: one agent is mentioned by user messages while its
\* row may be set to WaitingApproval from outside; executors print nothing and
\* end successfully.
NextApproval ==
    \/ /\ Cardinality(UserMessages) < MaxApprovalMsgs
       /\ ActiveHandlers = {}
       /\ PostUserMessage({"a"}, {})
    \/ SchedulerStep(SchedExecutors)
    \/ \E r \in DOMAIN runs : ChildExit(r, "success")
    \/ ExternalApproval("a")

SpecApproval == Init /\ [][NextApproval]_vars

\* how a background compaction task may end
CompactionOutcomes == {"failed", "unchanged", "summarized", "truncated"}

\* Compaction specification: user messages mention two members, whose tasks
\* build their context snapshots on the worker threads of the runtime, each
\* calling spawn_background_context_compaction before its executor is spawned.
NextCompact ==
    \/ /\ Cardinality(UserMessages) < MaxCompactMsgs
       /\ ActiveHandlers = {}
       /\ \E ms \in {{"a"}, {"a", "b"}} : PostUserMessage(ms, {})
    \/ \E p \in Mentions : Resolve(p[1], p[2])
    \/ \E p \in Mentions : Decide(p[1], p[2])
    \/ \E p \in Mentions : CompactionCheck(p[1], p[2])
    \/ \E p \in Mentions : CompactionSpawn(p[1], p[2])
    \/ \E outcome \in CompactionOutcomes : CompactionEnds(outcome)
    \/ \E p \in Mentions, ex \in SchedExecutors :
          /\ SnapshotCall(p[1], p[2], "returned") \in snapshot_calls
          /\ Start(p[1], p[2], ex)
    \/ \E r \in DOMAIN runs : ChildExit(r, "success")
    \/ \E r \in DOMAIN runs : BridgeFinish(r)
    \/ \E r \in DOMAIN runs : BridgeQueue(r)

SpecCompact == Init /\ [][NextCompact]_vars

\* the member lists of a session: up to MaxMembers agents of different names
MemberLists ==
    UNION {{l \in [1..k -> CaseNames] : \A i \in 1..k : \A j \in 1..k : l[i] = l[j] => i = j} :
              k \in 0..MaxMembers}

\* Resolution specification: resolve_session_agent_for_mention is called once
\* on a member list and a mention
InitResolve ==
    /\ InitCommon
    /\ subscribed = FALSE
    /\ args \in {<<names, mention>> : names \in MemberLists,
                                      mention \in CaseNames \cup {"zed"}}
    /\ returned = NoCall

CallResolve ==
    /\ returned = NoCall
    /\ returned' = <<resolve_scan(args[1], args[2], 1, "none")>>
    /\ UNCHANGED <<messages, mention_statuses, saState, agent_session_id,
                   agent_message_id, pending_messages, cancellation_tokens, handlers,
                   runs, subscribed, aside, events, enqueued, nstops, meta_writes,
                   background_compaction_inflight, compaction_tasks, snapshot_calls,
                   args>>

NextResolve == CallResolve

SpecResolve == InitResolve /\ [][NextResolve]_vars

\* Chain specification: one user message mentions agent a, with a chain_depth
\* of the client's choosing; every agent replies with a text that routes to
\* none or to all of the other agents, and exits successfully; the tasks run
\* one after the other.
\* a reply "ok" followed by one directive for each agent of targets
Reply(targets) ==
    Chars(<<"o", "k">>) \o
        SelectSeq([i \in 1..Len(AgentOrder) |-> Directive(AgentOrder[i])],
                  LAMBDA tok : tok[2] \in targets)

ChainExecutors(a) ==
    {Executor(TRUE, FALSE, FALSE, <<Reply(t)>>) : t \in {{}, Agents \ {a}}}

\* chain_depth values a client may put in the meta of the message it posts
ClientDepths == {{}, {U64(0, 5)}, {U64(1, 3)}}

NextChain ==
    \/ /\ messages = <<>>
       /\ \E d \in ClientDepths : PostUserMessage({"a"}, d)
    \/ /\ NoTaskMidway
       /\ Cardinality(UnfinishedRuns) < MaxChainActive
       /\ \E p \in Mentions : Resolve(p[1], p[2])
    \/ \E p \in Mentions : Decide(p[1], p[2])
    \/ /\ Len(runs) < MaxChainRuns
       /\ \E p \in Mentions : \E ex \in ChainExecutors(p[2]) : Start(p[1], p[2], ex)
    \/ \E r \in DOMAIN runs : ExecEmit(r)
    \/ \E r \in DOMAIN runs : BridgeItem(r)
    \/ \E r \in DOMAIN runs : runs[r].script = <<>> /\ ChildExit(r, "success")
    \/ \E r \in DOMAIN runs : BridgeFinish(r)
    \/ \E r \in DOMAIN runs : BridgeQueue(r)

SpecChain == Init /\ [][NextChain]_vars

\* ------------------------------------------------------------------- claims

\* runs whose stream bridge has not finalized yet
RunsInFlight(a) == {r \in DOMAIN runs : runs[r].agent = a /\ runs[r].final = "none"}

RunsOf(m) == {r \in DOMAIN runs : runs[r].msg = m}

\* C1: at every moment at most one run (a spawned executor whose stream bridge
\* has not finalized) exists per SessionAgent, under any interleaving of the
\* mention tasks.
C1_AtMostOneRunInFlight == \A a \in Agents : Cardinality(RunsInFlight(a)) <= 1

NoRunFinalizedDead == \A r \in DOMAIN runs : runs[r].final # "Dead"

\* C2: as long as no run finalizes Dead, the messages queued for a SessionAgent
\* are started in the order of their arrival in the queue, each at most once:
\* a queued message is started only after every message queued before it.
C2_QueueFifoExactlyOnce ==
    NoRunFinalizedDead =>
        /\ \A m \in DOMAIN messages : Cardinality(RunsOf(m)) <= 1
        /\ \A i, j \in 1..Len(enqueued) :
              (i < j /\ RunsOf(enqueued[j]) # {}) =>
                  \E ri \in RunsOf(enqueued[i]) :
                      \A rj \in RunsOf(enqueued[j]) : ri < rj

\* nothing is left to do for the runner: no mention task is under way and every
\* spawned executor has exited and been finalized
Quiescent ==
    /\ ActiveHandlers = {}
    /\ \A r \in DOMAIN runs : runs[r].bridge = "done"

\* C3: once every spawned executor has exited and every task has finished,
\* every accepted mention has the persisted status completed or failed; no
\* message is left in the pending queue with status received.
C3_MentionsReachTerminalStatus ==
    Quiescent =>
        /\ \A m \in DOMAIN messages : \A a \in Triggered(messages[m]) :
              mention_statuses[m][a] \in {"completed", "failed"}
        /\ \A a \in Agents : pending_messages[a] = <<>>

\* meta.chain_depth as the 64-bit number the message carries (0 when missing)
MetaChainDepth(msg) ==
    IF msg.chain_depth = {} THEN U64(0, 0) ELSE CHOOSE d \in msg.chain_depth : TRUE

\* the agent messages, each produced by a run
RunReplies == {m \in DOMAIN messages : messages[m].sender_type = "Agent"}

\* the message that triggered the run which produced the agent message m
SourceOf(m) == runs[messages[m].run].msg

\* no run was started and nothing was queued for message m
NothingStarted(m) ==
    /\ RunsOf(m) = {}
    /\ \A a \in Agents : \A i \in 1..Len(pending_messages[a]) : pending_messages[a][i] # m
    /\ \A i \in 1..Len(enqueued) : enqueued[i] # m

\* no mention task was spawned for message m either
Untriggered(m) == NothingStarted(m) /\ \A a \in Agents : handlers[m][a].pc = "none"

\* C4: the agent message produced by a run carries the chain_depth of the
\* message that triggered the run plus 1 (missing counts as 0), and no run is
\* started and nothing is enqueued for a message whose chain_depth is at least
\* MAX_AGENT_CHAIN_DEPTH.
C4_ChainDepthCountsAndLimits ==
    /\ \A m \in RunReplies :
          LET src == MetaChainDepth(messages[SourceOf(m)])
          IN  MetaChainDepth(messages[m]) = U64(src[1], src[2] + 1)
    /\ \A m \in DOMAIN messages :
          U64AtLeast(MetaChainDepth(messages[m]), MAX_AGENT_CHAIN_DEPTH) => NothingStarted(m)

\* runs triggered by an agent message
RoutedRuns == {r \in DOMAIN runs : messages[runs[r].msg].sender_type = "Agent"}

\* C5 as stated: one user message leads to at most MAX_AGENT_CHAIN_DEPTH runs
\* triggered by agent messages in total, whatever the agents reply.
C5_AtMostFiveRoutedRuns == Cardinality(RoutedRuns) <= MAX_AGENT_CHAIN_DEPTH

\* the number of runs on the chain from the user's message down to run r
RECURSIVE RunsInChain(_)
RunsInChain(r) ==
    IF messages[runs[r].msg].sender_type = "Agent"
    THEN 1 + RunsInChain(messages[runs[r].msg].run)
    ELSE 1

\* C5 amended: the limit holds along each chain of routed messages: a chain
\* that starts at the user's message has at most MAX_AGENT_CHAIN_DEPTH runs,
\* the run of the user's message included.
C5_ChainHasAtMostFiveRuns ==
    \A r \in DOMAIN runs : RunsInChain(r) <= MAX_AGENT_CHAIN_DEPTH

\* a chain of MAX_AGENT_CHAIN_DEPTH runs whose last reply routes on in vain
C5_ChainOfFiveRunsEnds ==
    \E m \in RunReplies :
        /\ RunsInChain(messages[m].run) = MAX_AGENT_CHAIN_DEPTH
        /\ messages[m].mentions # {}
        /\ Untriggered(m)

\* the transition graph of a session agent's state
TransitionGraph ==
    {<<"Idle", "Running">>, <<"Running", "Idle">>,
     <<"Running", "Dead">>, <<"Dead", "Running">>}

\* C6: every change of a session agent's persisted state is an edge of the
\* transition graph Idle->Running, Running->Idle, Running->Dead, Dead->Running.
C6_StateFollowsTransitionGraph ==
    [][\A a \in Agents :
          saState'[a] # saState[a] => <<saState[a], saState'[a]>> \in TransitionGraph]_vars

\* C7: whenever a session agent's persisted state becomes Dead, its
\* agent_session_id and agent_message_id are both cleared.
C7_DeadClearsHandles ==
    [][\A a \in Agents :
          (saState[a] # "Dead" /\ saState'[a] = "Dead") =>
              (agent_session_id'[a] = NoValue /\ agent_message_id'[a] = NoValue)]_vars

FinishedCount(r) ==
    Cardinality({i \in DOMAIN runs[r].store : runs[r].store[i].kind = "Finished"})

\* C8: an exit signal that arrives for a run after stop_agent cancelled the
\* run's token publishes no Finished, and while the child has not exited the
\* run is not finalized because of it.
C8_SignalAfterStopIgnored ==
    \A r \in DOMAIN runs :
        runs[r].signal_after_cancel =>
            /\ runs[r].finished_by # "signal"
            /\ ~runs[r].finished_from_signal
            /\ runs[r].poller = "poll" =>
                  (FinishedCount(r) = 0 /\ runs[r].final = "none")

\* an exit signal has arrived for a stopped run whose child is still alive
C8_SignalArrivedAfterStop ==
    \E r \in DOMAIN runs :
        runs[r].signal_after_cancel /\ runs[r].signal = "done" /\ runs[r].poller = "poll"

FinalDeltas(r) ==
    {i \in DOMAIN events :
        events[i].type = "AgentDelta" /\ events[i].run = r /\ events[i].is_final}

\* C9: Finished is published at most once on a run's msg_store whatever the
\* order of the child-exit poller and the exit_signal task, and the run is
\* finalized at most once: one final AgentDelta, at most one agent message.
C9_FinishedPublishedOnce ==
    \A r \in DOMAIN runs :
        /\ FinishedCount(r) <= 1
        /\ Cardinality(FinalDeltas(r)) <= 1
        /\ Cardinality({m \in RunReplies : messages[m].run = r}) <= 1

\* both watcher tasks of a finalized run reported its end
C9_BothWatchersReported ==
    \E r \in DOMAIN runs :
        /\ runs[r].finished_from_signal
        /\ runs[r].poller = "done"
        /\ runs[r].final # "none"
        /\ FinishedCount(r) = 1

\* the scenario of C10: one user mention of the idle agent, never stopped,
\* whose executor printed the one assistant patch "hi" and ended successfully
HiScenario ==
    /\ nstops = 0
    /\ Len(messages) = 2
    /\ messages[1].sender_type = "User"
    /\ messages[2].sender_type = "Agent" /\ messages[2].content = Hi
    /\ Len(runs) = 1
    /\ runs[1].store = <<JsonPatchMsg(0, Hi), FinishedMsg>>
    /\ runs[1].final = "Idle"
    /\ Quiescent

\* C10 as stated: the subscriber sees the acknowledgement before the Running
\* state, and the final delta before the agent's message.
C10_EventsInStatedOrder ==
    HiScenario =>
        events = <<MessageNew(1),
                   MentionAcknowledged(1, "a", "running"),
                   AgentState("a", "Running"),
                   AgentDelta(1, "a", Hi, TRUE, FALSE),
                   AgentDelta(1, "a", Hi, FALSE, TRUE),
                   MessageNew(2),
                   AgentState("a", "Idle"),
                   MentionAcknowledged(1, "a", "completed")>>

\* C10 amended: the subscriber sees, in this order, MessageNew(user),
\* AgentState(Running), MentionAcknowledged(running), the delta "hi",
\* MessageNew(agent), the final "hi", AgentState(Idle),
\* MentionAcknowledged(completed).
C10_EventsInEmittedOrder ==
    HiScenario =>
        events = <<MessageNew(1),
                   AgentState("a", "Running"),
                   MentionAcknowledged(1, "a", "running"),
                   AgentDelta(1, "a", Hi, TRUE, FALSE),
                   MessageNew(2),
                   AgentDelta(1, "a", Hi, FALSE, TRUE),
                   AgentState("a", "Idle"),
                   MentionAcknowledged(1, "a", "completed")>>

\* the scenario has run to its end
C10_HiScenarioCompleted == HiScenario /\ Len(events) = 8

\* ------------------------------------------------------------------- C11

\* the position of the final AgentDelta of run r on the subscription, 0 if none
FinalDeltaAt(r) ==
    LET at == {i \in DOMAIN events : /\ events[i].type = "AgentDelta"
                                     /\ events[i].run = r
                                     /\ events[i].is_final}
    IN  IF at = {} THEN 0 ELSE CHOOSE i \in at : \A j \in at : i <= j

\* event i says that the agent of run r, which had begun, is Idle or Dead
TerminalStateOf(i, r) ==
    /\ events[i].type = "AgentState"
    /\ events[i].agent = runs[r].agent
    /\ events[i].state \in {"Idle", "Dead"}
    /\ i > runs[r].ev_start

\* event i acknowledges the mention of run r as completed or failed
TerminalAckOf(i, r) ==
    /\ events[i].type = "MentionAcknowledged"
    /\ events[i].message = runs[r].msg
    /\ events[i].agent = runs[r].agent
    /\ events[i].state \in {"completed", "failed"}

\* C11: on the subscription, for every run, AgentState{Running} of its agent
\* comes before every AgentDelta of the run, and the run's final AgentDelta
\* comes before every AgentState{Idle|Dead} of its agent sent since the run
\* began and before the MentionAcknowledged{Completed|Failed} of its mention,
\* also when stop_agent is called while the run is in flight.
C11_RunEventsInOrder ==
    \A r \in DOMAIN runs : \A i \in DOMAIN events :
        /\ events[i].type = "AgentDelta" /\ events[i].run = r
              => \E j \in 1..(i - 1) : events[j] = AgentState(runs[r].agent, "Running")
        /\ TerminalStateOf(i, r) \/ TerminalAckOf(i, r)
              => FinalDeltaAt(r) \in 1..(i - 1)

\* ------------------------------------------------------------------- C12

\* the step in which the bridge of run r, finalized Dead, deals with the queue
DeadQueueStep(r) ==
    /\ runs[r].bridge = "queue"
    /\ runs[r].final = "Dead"
    /\ runs'[r].bridge # "queue"

\* MentionAcknowledged{Failed} for each message of queue, in queue order
FailedAcks(queue, a) ==
    [i \in 1..Len(queue) |-> MentionAcknowledged(queue[i], a, "failed")]

\* C12: when a run finalizes Dead, every message queued for its agent at that
\* moment gets MentionAcknowledged{Failed} emitted and the status failed
\* persisted, and the queue is emptied; none of those messages is started as
\* a run afterwards.
C12_DeadFinalizationFailsQueue ==
    /\ [][\A r \in DOMAIN runs :
            DeadQueueStep(r) =>
                LET a == runs[r].agent
                    queue == pending_messages[a]
                IN  /\ pending_messages'[a] = <<>>
                    /\ \A i \in 1..Len(queue) :
                          mention_statuses'[queue[i]][a] = "failed"
                    /\ subscribed => events' = events \o FailedAcks(queue, a)]_vars
    /\ [](\A r \in DOMAIN runs : \A q \in DOMAIN runs :
            q > r /\ runs[q].agent = runs[r].agent => runs[q].msg \notin runs[r].cleared)

\* a run finalized Dead with two messages in the queue of its agent, seen by a
\* subscriber: both were removed and are persisted as failed
C12_TwoQueuedMessagesFailed ==
    /\ subscribed
    /\ \E r \in DOMAIN runs :
          /\ Cardinality(runs[r].cleared) = 2
          /\ runs[r].bridge = "done"
          /\ \A m \in runs[r].cleared : mention_statuses[m][runs[r].agent] = "failed"

\* ------------------------------------------------------------------- C13

\* the step in which the task of mention (m, a), having moved the agent to
\* Running, fails to set the run up or to spawn the executor
StartFailureStep(m, a) ==
    /\ handlers[m][a].pc = "starting"
    /\ handlers'[m][a].pc = "done"
    /\ Len(runs') = Len(runs)

\* C13: when run_agent_for_mention fails after it has moved the SessionAgent
\* to Running, the SessionAgent is forced to Dead, AgentState{Dead} is
\* emitted, both continuation handles are cleared, and every message then
\* queued for that SessionAgent is marked Failed and dropped from the queue.
C13_StartFailureResetsAgent ==
    [][\A m \in DOMAIN handlers : \A a \in Agents :
          StartFailureStep(m, a) =>
              LET queue == pending_messages[a]
              IN  /\ saState'[a] = "Dead"
                  /\ subscribed => events'[Len(events')] = AgentState(a, "Dead")
                  /\ agent_session_id'[a] = NoValue
                  /\ agent_message_id'[a] = NoValue
                  /\ pending_messages'[a] = <<>>
                  /\ \A i \in 1..Len(queue) :
                        mention_statuses'[queue[i]][a] = "failed"]_vars

\* ------------------------------------------------------------------- C15

\* the task of mention (m, a) has persisted a status and gone on
HasPersisted(m, a) ==
    \/ handlers[m][a].pc = "starting"
    \/ \E r \in DOMAIN runs : runs[r].msg = m /\ runs[r].agent = a

\* C15: the handling of one mention of a message does not alter that of the
\* others; in particular concurrent status updates for different agents on
\* the same message never lose one agent's entry in meta.mention_statuses:
\* a mention whose task has persisted its status has an entry.
C15_NoStatusEntryLost ==
    \A p \in Mentions : HasPersisted(p[1], p[2]) => mention_statuses[p[1]][p[2]] # "none"

\* ------------------------------------------------------------------- C19

\* the place of a persisted status in the order received < running < completed|failed
StatusRank(status) ==
    CASE status = "none" -> 0
      [] status = "received" -> 1
      [] status = "running" -> 2
      [] OTHER -> 3

\* C19: for every (message, agent) the persisted meta.mention_statuses value
\* only advances in the order received < running < completed|failed: it
\* never moves to a lower value and a terminal value never changes.  (Stated
\* for the messages that mention one agent, whose meta no other mention's
\* task writes.)
C19_StatusOnlyAdvances ==
    [][\A m \in DOMAIN mention_statuses : \A a \in messages[m].mentions :
          Cardinality(messages[m].mentions) = 1 =>
          /\ StatusRank(mention_statuses'[m][a]) >= StatusRank(mention_statuses[m][a])
          /\ StatusRank(mention_statuses[m][a]) = 3
                => mention_statuses'[m][a] = mention_statuses[m][a]]_vars

\* ------------------------------------------------------------------- C14

\* mention n of message m resolves to no member of the session
NamesNoMember(m, n) ==
    /\ ~IsReservedMention(messages[m], n)
    /\ resolve_session_agent_for_mention(n) = "none"

\* the step in which the task of mention (m, n) ends at its resolution
ResolutionEnds(m, n) ==
    handlers[m][n].pc = "resolve" /\ handlers'[m][n].pc = "done"

\* the System messages of the session
SystemMessages == {i \in DOMAIN messages : messages[i].sender_type = "System"}

\* C14: a mention that resolves to no member of the session (unknown agent, or
\* catalog agent that is not a member) gets the status failed, creates exactly
\* one System message 'Agent "<name>" failed to execute this mention:
\* <reason>', starts no run, enqueues nothing and changes no SessionAgent state.
C14_UnresolvedMentionFails ==
    /\ [][\A m \in DOMAIN handlers : \A n \in Handles :
            NamesNoMember(m, n) /\ ResolutionEnds(m, n) =>
                /\ mention_statuses'[m][n] = "failed"
                /\ Len(messages') = Len(messages) + 1
                /\ SubSeq(messages', 1, Len(messages)) = messages
                /\ messages'[Len(messages')].sender_type = "System"
                /\ \E reason \in {"not configured", "not found"} :
                      messages'[Len(messages')].content = mention_failure_text(n, reason)
                /\ Len(runs') = Len(runs)
                /\ pending_messages' = pending_messages
                /\ saState' = saState]_vars
    /\ [](\A m \in DOMAIN handlers : \A n \in Handles :
            NamesNoMember(m, n) =>
                /\ \A r \in DOMAIN runs : ~(runs[r].msg = m /\ runs[r].agent = n)
                /\ handlers[m][n].pc \in {"none", "resolve", "done"}
                /\ mention_statuses[m][n] \in {"none", "failed"})

\* a user message mentioned a name of no agent and a catalog agent outside
\* the session: both mentions are failed, each with its System message
C14_BothKindsReported ==
    \E m \in DOMAIN messages :
        /\ messages[m].mentions = {"zed", "d"}
        /\ mention_statuses[m]["zed"] = "failed"
        /\ mention_statuses[m]["d"] = "failed"
        /\ Cardinality(SystemMessages) = 2
        /\ runs = <<>>

\* ------------------------------------------------------------------- C16

\* mention n of the agent message m targets the sender or the reserved handle
IgnoredMention(m, n) ==
    /\ messages[m].sender_type = "Agent"
    /\ n \in messages[m].mentions
    /\ \/ n = messages[m].sender_id
       \/ to_ascii_lowercase(n) = RESERVED_USER_HANDLE

\* C16: a mention in an agent-originated message that targets the sending
\* agent itself, or the reserved handle 'you' in any ASCII case, is ignored
\* silently: no run starts, nothing is enqueued, no SessionAgent state
\* changes, no mention status is written and no MentionAcknowledged or System
\* message is emitted for it.
C16_SelfAndReservedMentionsIgnored ==
    /\ [](\A m \in DOMAIN messages : \A n \in Handles :
            IgnoredMention(m, n) =>
                /\ \A r \in DOMAIN runs : ~(runs[r].msg = m /\ runs[r].agent = n)
                /\ \A a \in Agents : \A i \in 1..Len(pending_messages[a]) :
                      ~(pending_messages[a][i] = m /\ a = n)
                /\ mention_statuses[m][n] = "none"
                /\ handlers[m][n].pc \in {"none", "resolve", "done"}
                /\ \A i \in DOMAIN events :
                      ~(/\ events[i].type = "MentionAcknowledged"
                        /\ events[i].message = m
                        /\ events[i].agent = n))
    /\ [](\A i \in SystemMessages : \A j \in 1..Len(messages[i].content) :
            to_ascii_lowercase(messages[i].content[j][2]) # RESERVED_USER_HANDLE)
    /\ [][\A m \in DOMAIN handlers : \A n \in Handles :
            IgnoredMention(m, n) /\ handlers[m][n].pc # handlers'[m][n].pc =>
                /\ messages' = messages
                /\ saState' = saState
                /\ events' = events
                /\ Len(runs') = Len(runs)]_vars

\* an agent's reply mentioned the agent itself and "You": the task of the
\* self-mention has ended, none was spawned for "You", the run is finalized
C16_SelfAndYouMentioned ==
    \E m \in DOMAIN messages :
        /\ messages[m].sender_type = "Agent"
        /\ messages[m].mentions = {messages[m].sender_id, "You"}
        /\ handlers[m][messages[m].sender_id].pc = "done"
        /\ handlers[m]["You"].pc = "none"
        /\ runs[messages[m].run].bridge = "done"

\* ------------------------------------------------------------------- C17

\* the members of names whose name equals the mention ignoring ASCII case
CiMatches(names, mention) ==
    {i \in 1..Len(names) : eq_ignore_ascii_case(names[i], mention)}

\* C17: resolve_session_agent_for_mention returns the member whose name
\* equals the mention exactly whenever there is one, whatever the order of the
\* members and however many others match ignoring case; without an exact
\* match and with more than one match ignoring case it returns no member.
C17_ExactMatchWins ==
    returned # NoCall =>
        LET names == args[1]
            mention == args[2]
            exact == \E i \in 1..Len(names) : names[i] = mention
        IN  /\ exact => returned[1] = mention
            /\ ~exact /\ Cardinality(CiMatches(names, mention)) > 1
                  => returned[1] = "none"

\* ------------------------------------------------------------------- C18

\* C18: the Scheduler never starts a run for a SessionAgent whose state is
\* WaitingApproval: a mention task that read that state from the agent's row
\* does not move the agent to Running and does not go on to spawn an executor.
C18_NoStartWhileWaitingApproval ==
    [][\A m \in DOMAIN handlers : \A a \in Agents :
          (/\ handlers[m][a].pc = "resolved"
           /\ handlers[m][a].snap = "WaitingApproval"
           /\ handlers'[m][a].pc # "resolved")
              => /\ handlers'[m][a].pc # "starting"
                 /\ saState'[a] # "Running"]_vars

\* ------------------------------------------------------------------- C20

\* C20: at most one background compaction task of the session is in flight
\* at any time, also when two runs of the session build their context
\* snapshots concurrently.
C20_AtMostOneCompactionTask == compaction_tasks <= 1

\* ---------------------------------------------------------------------------
\* Parsing of message content (chat.rs): a content is a sequence of
\* characters; the sixteen characters of the directive prefix are one element.
\* ---------------------------------------------------------------------------

\* longest content passed to parse_mentions
MaxContentLen == 5

\* longest content passed to parse_send_message_directives
MaxDirectiveLen == 5

PREFIX == "[sendMessageTo@@"

MentionAlphabet == {"@", "a", "b", "-", ".", " "}

DirectiveAlphabet == {PREFIX, "{", "}", "]", "a", "b", " ", "@"}

ContentsOver(alphabet, longest) ==
    UNION {[1..n -> alphabet] : n \in 0..longest}

\* char::is_alphanumeric on the characters of the two alphabets
is_alphanumeric(c) == c \in {"a", "b"}

IsHandleChar(c) == is_alphanumeric(c) \/ c = "_" \/ c = "-"

\* the test on the character before an '@' (chat.rs 156-161), and the same
\* test never skipping
never_preceded(chars, i) == FALSE

preceded_by_word(chars, i) ==
    /\ i > 1
    /\ (is_alphanumeric(chars[i - 1]) \/ chars[i - 1] = "_"
        \/ chars[i - 1] = "-" \/ chars[i - 1] = ".")

\* the inner while loop: the characters of the name that starts at j
RECURSIVE take_name(_, _)
take_name(chars, j) ==
    IF j <= Len(chars) /\ IsHandleChar(chars[j])
    THEN <<chars[j]>> \o take_name(chars, j + 1)
    ELSE <<>>

SeenIn(mentions, name) == \E k \in 1..Len(mentions) : mentions[k] = name

RECURSIVE scan_mentions(_, _, _)
scan_mentions(chars, i, mentions) ==
    IF i > Len(chars) THEN mentions
    ELSE IF chars[i] # "@" THEN scan_mentions(chars, i + 1, mentions)
    ELSE IF preceded_by_word(chars, i) THEN scan_mentions(chars, i + 1, mentions)
    ELSE LET name == take_name(chars, i + 1)
         IN  IF name # <<>> /\ ~SeenIn(mentions, name)
             THEN scan_mentions(chars, i + 1, Append(mentions, name))
             ELSE scan_mentions(chars, i + 1, mentions)

parse_mentions(content) == scan_mentions(content, 1, <<>>)

\* first position at or after `from` that holds `what`, 0 when there is none
find(content, from, what) ==
    IF \E p \in from..Len(content) : content[p] = what
    THEN CHOOSE p \in from..Len(content) :
             /\ content[p] = what
             /\ \A q \in from..(p - 1) : content[q] # what
    ELSE 0

\* first position at or after `from` where "}]" starts, 0 when there is none
find_brace_suffix(content, from) ==
    IF \E p \in from..(Len(content) - 1) : content[p] = "}" /\ content[p + 1] = "]"
    THEN CHOOSE p \in from..(Len(content) - 1) :
             /\ content[p] = "}" /\ content[p + 1] = "]"
             /\ \A q \in from..(p - 1) : ~(content[q] = "}" /\ content[q + 1] = "]")
    ELSE 0

is_whitespace(c) == c = " "

\* str::trim
trim(s) ==
    IF \A k \in 1..Len(s) : is_whitespace(s[k]) THEN <<>>
    ELSE LET first == CHOOSE k \in 1..Len(s) :
                          ~is_whitespace(s[k]) /\ \A q \in 1..(k - 1) : is_whitespace(s[q])
             last  == CHOOSE k \in 1..Len(s) :
                          ~is_whitespace(s[k]) /\ \A q \in (k + 1)..Len(s) : is_whitespace(s[q])
         IN  SubSeq(s, first, last)

IsValidTarget(name) ==
    name # <<>> /\ \A k \in 1..Len(name) : IsHandleChar(name[k])

\* the while loop of parse_send_message_directives; cursor is one-based
RECURSIVE scan_directives(_, _, _)
scan_directives(content, cursor, mentions) ==
    IF cursor > Len(content) THEN mentions
    ELSE LET p == find(content, cursor, PREFIX)
         IN  IF p = 0 THEN mentions
             ELSE LET brace == p + 1 <= Len(content) /\ content[p + 1] = "{"
                      name_start == IF brace THEN p + 2 ELSE p + 1
                      name_end == IF brace THEN find_brace_suffix(content, name_start)
                                  ELSE find(content, name_start, "]")
                      next_cursor == IF brace THEN name_end + 2 ELSE name_end + 1
                      name == trim(SubSeq(content, name_start, name_end - 1))
                  IN  IF name_end = 0
                      THEN scan_directives(content, name_start, mentions)
                      ELSE IF IsValidTarget(name) /\ ~SeenIn(mentions, name)
                           THEN scan_directives(content, next_cursor, Append(mentions, name))
                           ELSE scan_directives(content, next_cursor, mentions)

parse_send_message_directives(content) == scan_directives(content, 1, <<>>)

InitParse ==
    /\ InitCommon
    /\ subscribed = FALSE
    /\ args \in ({<<"parse_mentions", c>> : c \in ContentsOver(MentionAlphabet, MaxContentLen)}
                 \cup {<<"parse_send_message_directives", c>> :
                          c \in ContentsOver(DirectiveAlphabet, MaxDirectiveLen)})
    /\ returned = NoCall

CallParseMentions ==
    /\ returned = NoCall
    /\ args[1] = "parse_mentions"
    /\ returned' = <<parse_mentions(args[2])>>
    /\ UNCHANGED <<messages, mention_statuses, saState, agent_session_id,
                   agent_message_id, pending_messages, cancellation_tokens, handlers,
                   runs, subscribed, aside, events, enqueued, nstops, meta_writes,
                   background_compaction_inflight, compaction_tasks, snapshot_calls,
                   args>>

CallParseDirectives ==
    /\ returned = NoCall
    /\ args[1] = "parse_send_message_directives"
    /\ returned' = <<parse_send_message_directives(args[2])>>
    /\ UNCHANGED <<messages, mention_statuses, saState, agent_session_id,
                   agent_message_id, pending_messages, cancellation_tokens, handlers,
                   runs, subscribed, aside, events, enqueued, nstops, meta_writes,
                   background_compaction_inflight, compaction_tasks, snapshot_calls,
                   args>>

NextParse == CallParseMentions \/ CallParseDirectives

SpecParse == InitParse /\ [][NextParse]_vars

\* ---------------------------------------------------------------------------
\* C24
\* ---------------------------------------------------------------------------

\* an '@' that is not immediately preceded by an alphanumeric character,
\* '_', '-' or '.'
MentionStartsAt(s, i) ==
    /\ s[i] = "@"
    /\ (i = 1 \/ s[i - 1] \notin {"a", "b", "_", "-", "."})

\* the maximal run of handle characters after position i
HandleAfter(s, i) ==
    LET e == CHOOSE e \in i..Len(s) :
                 /\ \A k \in (i + 1)..e : s[k] \in {"a", "b", "_", "-"}
                 /\ (e = Len(s) \/ s[e + 1] \notin {"a", "b", "_", "-"})
    IN  SubSeq(s, i + 1, e)

MentionPositions(s, h) ==
    {i \in 1..Len(s) : MentionStartsAt(s, i) /\ HandleAfter(s, i) = h}

FirstOf(positions) == CHOOSE i \in positions : \A j \in positions : i <= j

ParsedMentions == args[1] = "parse_mentions" /\ returned # NoCall

\* C24: parse_mentions returns the non-empty handles (maximal runs of
\* alphanumeric characters, '_' or '-' after an '@') in first-occurrence order
\* and without duplicates, and skips every '@' that is immediately preceded by
\* an alphanumeric character, '_', '-' or '.'.
C24_MentionsParsed ==
    ParsedMentions =>
        LET s == args[2]
            r == returned[1]
        IN  /\ \A k \in 1..Len(r) : r[k] # <<>> /\ MentionPositions(s, r[k]) # {}
            /\ \A i \in 1..Len(s) :
                   (MentionStartsAt(s, i) /\ HandleAfter(s, i) # <<>>)
                       => \E k \in 1..Len(r) : r[k] = HandleAfter(s, i)
            /\ \A k1, k2 \in 1..Len(r) :
                   k1 < k2 => /\ r[k1] # r[k2]
                              /\ FirstOf(MentionPositions(s, r[k1]))
                                     < FirstOf(MentionPositions(s, r[k2]))

\* witness: "@b.@a" is parsed; the second '@' follows a '.' and is skipped
C24_SkippedAndRepeated ==
    /\ ParsedMentions
    /\ args[2] = <<"@", "b", ".", "@", "a">>
    /\ returned[1] = <<<<"b">>>>

\* ---------------------------------------------------------------------------
\* C25
\* ---------------------------------------------------------------------------

NameChars == {"a", "b", "_", "-"}

\* the name of the directive [sendMessageTo@@name] or [sendMessageTo@@{name}]
\* that starts at position p, <<>> when no such directive starts there
DirectiveNameAt(s, p) ==
    IF p > Len(s) \/ s[p] # PREFIX THEN <<>>
    ELSE IF \E e \in (p + 2)..Len(s) :
                /\ s[e] = "]"
                /\ \A k \in (p + 1)..(e - 1) : s[k] \in NameChars
         THEN LET e == CHOOSE e \in (p + 2)..Len(s) :
                           /\ s[e] = "]"
                           /\ \A k \in (p + 1)..(e - 1) : s[k] \in NameChars
              IN  SubSeq(s, p + 1, e - 1)
         ELSE IF \E e \in (p + 3)..(Len(s) - 1) :
                     /\ s[p + 1] = "{" /\ s[e] = "}" /\ s[e + 1] = "]"
                     /\ \A k \in (p + 2)..(e - 1) : s[k] \in NameChars
              THEN LET e == CHOOSE e \in (p + 3)..(Len(s) - 1) :
                                /\ s[p + 1] = "{" /\ s[e] = "}" /\ s[e + 1] = "]"
                                /\ \A k \in (p + 2)..(e - 1) : s[k] \in NameChars
                   IN  SubSeq(s, p + 2, e - 1)
              ELSE <<>>

DirectivePositions(s, name) ==
    {p \in 1..Len(s) : DirectiveNameAt(s, p) = name}

ParsedDirectives == args[1] = "parse_send_message_directives" /\ returned # NoCall

NoWhitespace(s) == \A k \in 1..Len(s) : ~is_whitespace(s[k])

\* C25: parse_send_message_directives returns, in first-occurrence order and
\* without duplicates, exactly the valid names of the directives
\* [sendMessageTo@@name] and [sendMessageTo@@{name}]; plain @handle tokens,
\* directives with unbalanced brackets, empty names and names containing
\* characters other than alphanumerics, '_' and '-' contribute nothing.
\* Stated for the contents without whitespace, where trimming a name changes
\* nothing.
C25_DirectivesParsed ==
    (ParsedDirectives /\ NoWhitespace(args[2])) =>
        LET s == args[2]
            r == returned[1]
        IN  /\ \A k \in 1..Len(r) : r[k] # <<>> /\ DirectivePositions(s, r[k]) # {}
            /\ \A p \in 1..Len(s) :
                   DirectiveNameAt(s, p) # <<>>
                       => \E k \in 1..Len(r) : r[k] = DirectiveNameAt(s, p)
            /\ \A k1, k2 \in 1..Len(r) :
                   k1 < k2 => /\ r[k1] # r[k2]
                              /\ FirstOf(DirectivePositions(s, r[k1]))
                                     < FirstOf(DirectivePositions(s, r[k2]))

\* ---------------------------------------------------------------------------
\* The context JSONL (chat.rs 422-447).  A text is a sequence of characters;
\* a key name and a whole timestamp are one element each.
\* ---------------------------------------------------------------------------

\* most messages in a serialized sequence
MaxJsonlMsgs == 2

\* longest message content in a serialized sequence
MaxJsonContentLen == 2

NEWLINE == "\n"

QUOTE == "\""

BACKSLASH == "\\"

JsonContentAlphabet == {"a", "n", QUOTE, BACKSLASH, NEWLINE}

JsonSenders == {<<"u">>, <<"a">>}

\* to_rfc3339 texts of one instant (whole, with a fraction, in another
\* offset), of the next second, and a text that is no RFC 3339 timestamp
JsonTimestamps ==
    {"2024-01-01T10:00:00+00:00", "2024-01-01T10:00:00.500+00:00",
     "2024-01-01T11:00:00+01:00", "2024-01-01T10:00:01+00:00", "yesterday"}

SimplifiedMessage ==
    [sender : JsonSenders,
     content : ContentsOver(JsonContentAlphabet, MaxJsonContentLen),
     timestamp : JsonTimestamps]

NotADate == [ok |-> FALSE, secs |-> 0, nanos |-> 0, offset |-> 0]

\* chrono::DateTime::parse_from_rfc3339: seconds of the day in UTC, the
\* fraction and the offset of the text
parse_from_rfc3339(text) ==
    CASE text = "2024-01-01T10:00:00+00:00" ->
             [ok |-> TRUE, secs |-> 36000, nanos |-> 0, offset |-> 0]
      [] text = "2024-01-01T10:00:00.500+00:00" ->
             [ok |-> TRUE, secs |-> 36000, nanos |-> 500000000, offset |-> 0]
      [] text = "2024-01-01T11:00:00+01:00" ->
             [ok |-> TRUE, secs |-> 36000, nanos |-> 0, offset |-> 3600]
      [] text = "2024-01-01T10:00:01+00:00" ->
             [ok |-> TRUE, secs |-> 36001, nanos |-> 0, offset |-> 0]
      [] OTHER -> NotADate

\* with_timezone(&Local).format("%Y-%m-%d %H:%M:%S") where Local is UTC
format_local(dt) ==
    IF dt.secs = 36000 THEN "2024-01-01 10:00:00" ELSE "2024-01-01 10:00:01"

context_time(timestamp) ==
    LET dt == parse_from_rfc3339(timestamp)
    IN  IF dt.ok THEN format_local(dt) ELSE timestamp

\* the characters written as they are
no_escape(s) == s

\* serde_json's escaping of a string
RECURSIVE escape(_)
escape(s) ==
    IF s = <<>> THEN <<>>
    ELSE (CASE Head(s) = QUOTE -> <<BACKSLASH, QUOTE>>
            [] Head(s) = BACKSLASH -> <<BACKSLASH, BACKSLASH>>
            [] Head(s) = NEWLINE -> <<BACKSLASH, "n">>
            [] OTHER -> <<Head(s)>>) \o escape(Tail(s))

json_string(s) == <<QUOTE>> \o escape(s) \o <<QUOTE>>

json_member(key, s) == <<QUOTE, key, QUOTE, ":">> \o json_string(s)

\* serde_json::to_string of the value built by simplified_to_context_value
\* (the keys of a serde_json map are written in sorted order)
context_line(message) ==
    <<"{">> \o json_member("content", message.content) \o <<",">>
            \o json_member("sender", message.sender) \o <<",">>
            \o json_member("time", <<context_time(message.timestamp)>>) \o <<"}">>

RECURSIVE join_lines(_)
join_lines(lines) ==
    IF lines = <<>> THEN <<>>
    ELSE IF Len(lines) = 1 THEN lines[1]
    ELSE lines[1] \o <<NEWLINE>> \o join_lines(Tail(lines))

simplified_messages_to_jsonl(messages_) ==
    join_lines([k \in 1..Len(messages_) |-> context_line(messages_[k])]) \o <<NEWLINE>>

\* str::lines: the text split at its newlines, a final newline ending the
\* last line
RECURSIVE lines_of(_, _)
lines_of(text, current) ==
    IF text = <<>> THEN (IF current = <<>> THEN <<>> ELSE <<current>>)
    ELSE IF Head(text) = NEWLINE THEN <<current>> \o lines_of(Tail(text), <<>>)
    ELSE lines_of(Tail(text), Append(current, Head(text)))

NoString == [ok |-> FALSE, value |-> <<>>, next |-> 0]

\* the JSON string whose first character (after the opening quote) is at i
RECURSIVE read_string(_, _, _)
read_string(line, i, value) ==
    IF i > Len(line) THEN NoString
    ELSE IF line[i] = QUOTE THEN [ok |-> TRUE, value |-> value, next |-> i + 1]
    ELSE IF line[i] = BACKSLASH
         THEN IF i + 1 > Len(line) THEN NoString
              ELSE IF line[i + 1] = "n" THEN read_string(line, i + 2, Append(value, NEWLINE))
              ELSE IF line[i + 1] \in {QUOTE, BACKSLASH}
                   THEN read_string(line, i + 2, Append(value, line[i + 1]))
                   ELSE NoString
         ELSE read_string(line, i + 1, Append(value, line[i]))

\* the member "key":"..." that starts at i
read_member(line, i, key) ==
    IF /\ i + 4 <= Len(line)
       /\ SubSeq(line, i, i + 4) = <<QUOTE, key, QUOTE, ":", QUOTE>>
    THEN read_string(line, i + 5, <<>>)
    ELSE NoString

Unreadable == [sender |-> <<>>, content |-> <<>>, timestamp |-> "unreadable"]

\* one line read back as a message
read_line(line) ==
    IF line = <<>> \/ line[1] # "{" THEN Unreadable
    ELSE LET c == read_member(line, 2, "content")
         IN  IF ~c.ok \/ c.next > Len(line) \/ line[c.next] # "," THEN Unreadable
             ELSE LET s == read_member(line, c.next + 1, "sender")
                  IN  IF ~s.ok \/ s.next > Len(line) \/ line[s.next] # "," THEN Unreadable
                      ELSE LET t == read_member(line, s.next + 1, "time")
                           IN  IF /\ t.ok /\ Len(t.value) = 1
                                  /\ t.next = Len(line) /\ line[t.next] = "}"
                               THEN [sender |-> s.value, content |-> c.value,
                                     timestamp |-> t.value[1]]
                               ELSE Unreadable

IsJsonLine(line) == line # <<>>

\* the text read line by line, blank lines passed over
read_jsonl(text) ==
    LET lines == SelectSeq(lines_of(text, <<>>), IsJsonLine)
    IN  [k \in 1..Len(lines) |-> read_line(lines[k])]

MessageSequences ==
    UNION {[1..n -> SimplifiedMessage] : n \in 0..MaxJsonlMsgs}

InitJsonl ==
    /\ InitCommon
    /\ subscribed = FALSE
    /\ args \in {<<"simplified_messages_to_jsonl", ms>> : ms \in MessageSequences}
    /\ returned = NoCall

CallJsonl ==
    /\ returned = NoCall
    /\ args[1] = "simplified_messages_to_jsonl"
    /\ returned' = <<simplified_messages_to_jsonl(args[2])>>
    /\ UNCHANGED <<messages, mention_statuses, saState, agent_session_id,
                   agent_message_id, pending_messages, cancellation_tokens, handlers,
                   runs, subscribed, aside, events, enqueued, nstops, meta_writes,
                   background_compaction_inflight, compaction_tasks, snapshot_calls,
                   args>>

NextJsonl == CallJsonl

SpecJsonl == InitJsonl /\ [][NextJsonl]_vars

\* ---------------------------------------------------------------------------
\* C28
\* ---------------------------------------------------------------------------

Serialized == args[1] = "simplified_messages_to_jsonl" /\ returned # NoCall

\* C28 as stated: serializing a SimplifiedMessage sequence to the context
\* JSONL and reading it back line by line reproduces the same sequence
\* (sender, content and timestamp of every message) exactly.
C28_JsonlRoundTripExact ==
    Serialized => read_jsonl(returned[1]) = args[2]

\* C28: serializing a SimplifiedMessage sequence to the context
\* JSONL and reading it back line by line gives one message per message, in
\* order, with the same sender and content; its time is the timestamp in local
\* time to the whole second ("%Y-%m-%d %H:%M:%S"), or the timestamp itself
\* when that is no RFC 3339 text.
C28_JsonlRoundTrip ==
    Serialized =>
        LET r == read_jsonl(returned[1])
            m == args[2]
        IN  /\ Len(r) = Len(m)
            /\ \A k \in 1..Len(m) :
                   /\ r[k].sender = m[k].sender
                   /\ r[k].content = m[k].content
                   /\ r[k].timestamp =
                          (IF m[k].timestamp = "yesterday" THEN "yesterday"
                           ELSE IF m[k].timestamp = "2024-01-01T10:00:01+00:00"
                                THEN "2024-01-01 10:00:01"
                                ELSE "2024-01-01 10:00:00")

\* witness: two messages, the first with a quote and a newline in its content
\* and a timestamp with a fraction, have been serialized and read back
C28_EscapedContentReadBack ==
    /\ Serialized
    /\ Len(args[2]) = 2
    /\ args[2][1].content = <<QUOTE, NEWLINE>>
    /\ args[2][1].timestamp = "2024-01-01T10:00:00.500+00:00"
    /\ read_jsonl(returned[1])[1].content = <<QUOTE, NEWLINE>>
    /\ read_jsonl(returned[1])[1].timestamp = "2024-01-01 10:00:00"

\* ---------------------------------------------------------------------------
\* C21
\* ---------------------------------------------------------------------------

\* C21: the run rows of one SessionAgent have pairwise distinct run_index
\* values, strictly increasing in the order of their insertion, so no two
\* runs of the same SessionAgent share a run_records directory, under any
\* interleaving of run starts.
C21_RunIndexesDistinct ==
    \A i, j \in 1..Len(chat_runs) :
        (i < j /\ chat_runs[i].session_agent = chat_runs[j].session_agent)
            => /\ chat_runs[i].run_index < chat_runs[j].run_index
               /\ run_records_prefix(chat_runs[i].session_agent, chat_runs[i].run_index)
                      # run_records_prefix(chat_runs[j].session_agent,
                                           chat_runs[j].run_index)

\* ---------------------------------------------------------------------------
\* C30
\* ---------------------------------------------------------------------------

\* C30: a run is a follow-up exactly when its SessionAgent was not Dead when
\* the mention was accepted and has a non-empty session handle; a run started
\* from Dead is always a fresh spawn.
C30_FollowUpOnlyFromLiveAgent ==
    \A r \in 1..Len(runs) :
        /\ runs[r].follow_up
              <=> (runs[r].from_state # "Dead" /\ runs[r].from_session # NoValue)
        /\ runs[r].from_state = "Dead" => ~runs[r].follow_up

\* ---------------------------------------------------------------------------
\* An agent that routes every reply to itself
\* ---------------------------------------------------------------------------

\* most runs of the self-routing scenario
MaxSelfRuns == 7

\* the executor of agent a always replies "ok [sendMessageTo@@a]"
SelfExecutors(a) == {Executor(TRUE, FALSE, TRUE, <<ReplyTo(<<a>>)>>)}

NextSelf ==
    \/ /\ messages = <<>>
       /\ \E a \in Agents, d \in ClientDepths : PostUserMessage({a}, d)
    \/ \E p \in Mentions : Resolve(p[1], p[2])
    \/ \E p \in Mentions : Decide(p[1], p[2])
    \/ /\ Len(runs) < MaxSelfRuns
       /\ \E p \in Mentions : \E ex \in SelfExecutors(p[2]) : Start(p[1], p[2], ex)
    \/ \E r \in DOMAIN runs : ExecEmit(r)
    \/ \E r \in DOMAIN runs : BridgeItem(r)
    \/ \E r \in DOMAIN runs : runs[r].script = <<>> /\ ChildExit(r, "success")
    \/ \E r \in DOMAIN runs : BridgeFinish(r)
    \/ \E r \in DOMAIN runs : BridgeQueue(r)

SpecSelf == InitStream /\ [][NextSelf]_vars

\* ---------------------------------------------------------------------------
\* C29
\* ---------------------------------------------------------------------------

AgentMessages == {m \in DOMAIN messages : messages[m].sender_type = "Agent"}

\* the user has posted '@a go' (no chain depth given by the client)
SelfScenario == messages # <<>> /\ messages[1].chain_depth = {}

\* every mention task has ended and every run is finalized
Settled ==
    /\ \A p \in Mentions : handlers[p[1]][p[2]].pc \in {"none", "done"}
    /\ UnfinishedRuns = {}

\* C29 as stated: when the executor of a always replies [sendMessageTo@@a]
\* and the user posts '@a go', the chain of self-routed runs goes on until the
\* depth guard: five further agent messages are produced.
C29_SelfChainRunsToDepthGuard ==
    (SelfScenario /\ Settled) => Cardinality(AgentMessages) = MAX_AGENT_CHAIN_DEPTH

\* C29: when the executor of a always replies [sendMessageTo@@a] and the user
\* posts '@a go', exactly one agent message is produced: the reply of the one
\* run, whose mention of its own sender is skipped and triggers no run.
C29_SelfMentionEndsChain ==
    SelfScenario =>
        /\ Len(runs) <= 1
        /\ Cardinality(AgentMessages) <= 1
        /\ \A m \in AgentMessages :
              /\ messages[m].mentions = {messages[m].sender_id}
              /\ handlers[m][messages[m].sender_id].pc \in {"resolve", "done"}
        /\ Settled => Len(runs) = 1 /\ Cardinality(AgentMessages) = 1

\* witness: the reply that mentions its own sender was posted, its mention
\* task has ended and nothing is left to run
C29_SelfReplySkipped ==
    /\ SelfScenario
    /\ Settled
    /\ \E m \in AgentMessages :
          /\ messages[m].mentions = {messages[m].sender_id}
          /\ handlers[m][messages[m].sender_id].pc = "done"

\* ---------------------------------------------------------------------------
\* chat::create_message on a session that may be archived
\* (chat.rs 250-349, routes/chat/sessions.rs 274-328)
\* ---------------------------------------------------------------------------

\* most create_message calls of the creation specification
MaxCreateCalls == 1

\* the contents a caller passes: empty, blank, text
CreateContents == {<<>>, Chars(<<" ", " ">>), Chars(<<"h", "i">>)}

\* meta.attachments of the call: no such key, an empty list, a value that is
\* no list of attachments, a list of one attachment
AttachmentMetas == {"missing", "empty", "invalid", "one"}

\* sender_type and sender_id of the call
CreateSenders == {<<"User", "">>, <<"Agent", "a">>, <<"Agent", "">>}

\* a meta that always counts as carrying attachments
always_attached(attachments) == TRUE

\* has_attachments: extract_attachments(meta) is not empty
has_attachments(attachments) == attachments = "one"

\* create_message_with_id up to the session lookup: the sender check, then
\* ChatSession::find_by_id
CreateMessageLookup(sender, content, attachments) ==
    /\ Cardinality(create_calls) + Len(create_log) < MaxCreateCalls
    /\ create_calls' = create_calls \cup
          {[id |-> Cardinality(create_calls) + Len(create_log) + 1,
            sender_type |-> sender[1], sender_id |-> sender[2],
            content |-> content, attachments |-> attachments,
            status |-> IF sender[1] = "Agent" /\ sender[2] = ""
                       THEN "not read" ELSE session_status]}
    /\ UNCHANGED <<messages, mention_statuses, saState, agent_session_id,
                   agent_message_id, pending_messages, cancellation_tokens, handlers,
                   runs, subscribed, events, enqueued, nstops, side, shared, chat_runs,
                   session_status, create_log, compression>>

\* what create_message_with_id returns for a call
create_result(call) ==
    IF call.sender_type = "Agent" /\ call.sender_id = "" THEN "Validation"
    ELSE IF call.status # "Active" THEN "SessionArchived"
    ELSE IF IsBlank(call.content) /\ ~has_attachments(call.attachments)
         THEN "Validation"
         ELSE "Ok"

\* the rest of create_message_with_id: the checks on what was read, then
\* ChatMessage::create; the route then hands the message to handle_message
\* (history: create_log keeps the call, its result, the status of the session
\* at its end and the number of messages before and after)
CreateMessageEnd(call) ==
    LET result == create_result(call)
        msg == create_message(call.sender_type, call.sender_id, call.content,
                              {}, {}, 0)
    IN  /\ call \in create_calls
        /\ create_calls' = create_calls \ {call}
        /\ IF result = "Ok"
           THEN /\ messages' = Append(messages, msg)
                /\ mention_statuses' = Append(mention_statuses, NoStatuses)
                /\ handlers' = Append(handlers, SpawnedHandlers(msg))
                /\ events' = Emit(<<MessageNew(Len(messages) + 1)>>)
           ELSE UNCHANGED <<messages, mention_statuses, handlers, events>>
        /\ create_log' = Append(create_log,
              [call |-> call, result |-> result, status_at_end |-> session_status,
               before |-> Len(messages), after |-> Len(messages')])
        /\ UNCHANGED <<saState, agent_session_id, agent_message_id, pending_messages,
                       cancellation_tokens, runs, subscribed, enqueued, nstops, side, shared,
                       chat_runs, session_status, compression>>

\* routes::chat::sessions::archive_session
ArchiveSession ==
    /\ session_status = "Active"
    /\ session_status' = "Archived"
    /\ UNCHANGED <<messages, mention_statuses, saState, agent_session_id,
                   agent_message_id, pending_messages, cancellation_tokens, handlers,
                   runs, subscribed, events, enqueued, nstops, side, shared, chat_runs,
                   create_calls, create_log, compression>>

\* routes::chat::sessions::restore_session
RestoreSession ==
    /\ session_status = "Archived"
    /\ session_status' = "Active"
    /\ UNCHANGED <<messages, mention_statuses, saState, agent_session_id,
                   agent_message_id, pending_messages, cancellation_tokens, handlers,
                   runs, subscribed, events, enqueued, nstops, side, shared, chat_runs,
                   create_calls, create_log, compression>>

\* the executor of the creation specification replies "ok" to nobody
CreateExecutors == {Executor(TRUE, FALSE, FALSE, <<ReplyTo(<<>>)>>)}

\* the calls are made in a session without runs, the run is started in a
\* session without calls
NextCreate ==
    \/ /\ \A m \in DOMAIN messages : messages[m].mentions = {}
       /\ \E sender \in CreateSenders, content \in CreateContents,
             attachments \in AttachmentMetas :
             CreateMessageLookup(sender, content, attachments)
    \/ \E call \in create_calls : CreateMessageEnd(call)
    \/ ArchiveSession
    \/ RestoreSession
    \/ /\ messages = <<>> /\ create_calls = {} /\ create_log = <<>>
       /\ PostUserMessage({"a"}, {})
    \/ \E p \in Mentions : Resolve(p[1], p[2])
    \/ \E p \in Mentions : Decide(p[1], p[2])
    \/ \E p \in Mentions : \E ex \in CreateExecutors : Start(p[1], p[2], ex)
    \/ \E r \in DOMAIN runs : ExecEmit(r)
    \/ \E r \in DOMAIN runs : BridgeItem(r)
    \/ \E r \in DOMAIN runs : runs[r].script = <<>> /\ ChildExit(r, "success")
    \/ \E r \in DOMAIN runs : BridgeFinish(r)
    \/ \E r \in DOMAIN runs : BridgeQueue(r)

SpecCreate == Init /\ [][NextCreate]_vars

\* ---------------------------------------------------------------------------
\* C26
\* ---------------------------------------------------------------------------

\* the call carries a list of at least one attachment
CarriesAttachments(call) == call.attachments = "one"

BlankWithoutAttachments(entry) ==
    IsBlank(entry.call.content) /\ ~CarriesAttachments(entry.call)

\* C26: create_message with content that is empty after trimming and without
\* attachments returns an error of the chat service and inserts no message;
\* the error is the validation error when the session is Active (for an
\* Archived session it is SessionArchived, which is raised first).
C26_BlankContentRejected ==
    [][Len(create_log') > Len(create_log)
          => LET entry == create_log'[Len(create_log')]
             IN  BlankWithoutAttachments(entry)
                     => /\ messages' = messages
                        /\ entry.result \in {"Validation", "SessionArchived"}
                        /\ entry.call.status \in {"Active", "not read"}
                               => entry.result = "Validation"]_vars

\* witness: a call with blank content and an attachments value that is no
\* list was made on the Active session and has returned the validation error
C26_BlankCallRejected ==
    \E i \in DOMAIN create_log :
        /\ create_log[i].call.content = Chars(<<" ", " ">>)
        /\ create_log[i].call.attachments = "invalid"
        /\ create_log[i].call.status = "Active"
        /\ create_log[i].result = "Validation"
        /\ messages = <<>>

\* ---------------------------------------------------------------------------
\* C27
\* ---------------------------------------------------------------------------

\* C27: no message is ever inserted into an Archived session: a create_message
\* call on an Archived session returns SessionArchived and leaves the store
\* unchanged, also for the final agent message of a run that finishes after
\* the session was archived.
C27_NoInsertIntoArchivedSession ==
    [][session_status = "Archived" => messages' = messages]_vars

\* ---------------------------------------------------------------------------
\* compress_messages_if_needed (chat.rs 1404-1686) with its cache
\* (COMPRESSION_RESULT_CACHE, chat_session_compression_states) and the cutoff
\* files of the context directory
\* ---------------------------------------------------------------------------

\* most compress_messages_if_needed calls
MaxCompressCalls == 2

\* most messages in a history passed to compress_messages_if_needed
MaxHistoryLen == 4

\* a message of the session history: its text stands for sender, content and
\* timestamp, tokens for what the estimator counts for it
SourceMessage(text, tokens) ==
    [kind |-> "message", text |-> text, tokens |-> tokens, stamp |-> 0, path |-> 0,
     archived |-> 0]

\* the session history as it grows: two long messages, then short ones
FullHistory ==
    [i \in 1..MaxHistoryLen |-> SourceMessage(i, IF i <= 2 THEN 3 ELSE 1)]

\* the histories a call is made with: the history as it grows, a history in
\* which the first message is gone, and a history of short messages only
Histories ==
    {SubSeq(FullHistory, 1, n) : n \in 0..MaxHistoryLen}
        \cup {SubSeq(FullHistory, 2, 2), SubSeq(FullHistory, 3, MaxHistoryLen)}

TokenThresholds == {1, 5}

CompressionPercentages == {50}

\* what try_summarize_with_agents gives: a summary, or nothing (no agent, all
\* agents running, every agent failed)
SummaryOutcomes == {"summary", "none"}

\* estimate_token_count: the sum of the estimates of the messages
RECURSIVE estimate_token_count(_)
estimate_token_count(msgs) ==
    IF msgs = <<>> THEN 0 ELSE Head(msgs).tokens + estimate_token_count(Tail(msgs))

\* calculate_messages_fingerprint: the hasher is fed message after message
\* (the 64-bit SipHash is taken to be free of collisions on these histories)
RECURSIVE calculate_messages_fingerprint(_)
calculate_messages_fingerprint(msgs) ==
    IF msgs = <<>> THEN 0
    ELSE calculate_messages_fingerprint(SubSeq(msgs, 1, Len(msgs) - 1)) * 8
            + msgs[Len(msgs)].text

\* ceil(total * percentage / 100), at least 1
\* (floor_tokens: the quotient rounded down)
floor_tokens(total_tokens, percentage) == (total_tokens * percentage) \div 100
target_tokens(total_tokens, percentage) ==
    LET t == (total_tokens * percentage + 99) \div 100
    IN  IF t < 1 THEN 1 ELSE t

RECURSIVE selected_count(_, _, _, _)
selected_count(msgs, k, selected_tokens, target) ==
    IF k > Len(msgs) THEN Len(msgs)
    ELSE LET message_tokens == IF msgs[k].tokens < 1 THEN 1 ELSE msgs[k].tokens
         IN  IF selected_tokens + message_tokens >= target THEN k
             ELSE selected_count(msgs, k + 1, selected_tokens + message_tokens, target)

\* select_messages_to_compress_by_token: the length of the prefix to compress
select_messages_to_compress_by_token(msgs, total_tokens, percentage) ==
    IF msgs = <<>> THEN 0
    ELSE selected_count(msgs, 1, 0, target_tokens(total_tokens, percentage))

\* the "[History Summary]" message of a successful summarization, stamped
\* with Utc::now() (stamp is the number of the call)
SummaryMessage(stamp) ==
    [kind |-> "summary", text |-> 0, tokens |-> 1, stamp |-> stamp, path |-> 0,
     archived |-> 0]

\* the "[History Summary - Fallback]" message: it names how many messages
\* were archived and the cutoff file they went to
\* (unmarked: a truncation that leaves a plain summary message)
unmarked(stamp, path, archived) == SummaryMessage(stamp)
FallbackMessage(stamp, path, archived) ==
    [kind |-> "fallback", text |-> 0, tokens |-> 1, stamp |-> stamp, path |-> path,
     archived |-> archived]

NoWarning == [code |-> "none", split_file_path |-> 0]

CompressionWarning(path) == [code |-> "COMPRESSION_FALLBACK", split_file_path |-> path]

CompressionResult(msgs, compression_type, warning) ==
    [messages |-> msgs, compression_type |-> compression_type, warning |-> warning]

CompressionCacheEntry(fingerprint, count, threshold, percentage, result) ==
    [present |-> TRUE, source_fingerprint |-> fingerprint,
     source_message_count |-> count, token_threshold |-> threshold,
     compression_percentage |-> percentage, result |-> result]

\* get_compression_cache_entry: the entry in memory, else the persisted row
\* (never_cached: a lookup that never finds an entry)
never_cached == NoEntry
get_compression_cache_entry ==
    IF compression_cache.present THEN compression_cache ELSE compression_state

\* the exact match: same fingerprint, same thresholds
IsUnchanged(cached, fingerprint, threshold, percentage) ==
    /\ cached.present
    /\ cached.source_fingerprint = fingerprint
    /\ cached.token_threshold = threshold
    /\ cached.compression_percentage = percentage

\* the cached entry covers a prefix of the source messages
IsAppended(cached, source_messages, threshold, percentage) ==
    /\ cached.present
    /\ cached.token_threshold = threshold
    /\ cached.compression_percentage = percentage
    /\ cached.source_message_count <= Len(source_messages)
    /\ calculate_messages_fingerprint(
           SubSeq(source_messages, 1, cached.source_message_count))
          = cached.source_fingerprint

\* the incremental base: the cached result followed by the new tail
\* (from_source_messages: every call starts from the source messages)
from_source_messages(cached, source_messages, threshold, percentage) == source_messages
effective_messages(cached, source_messages, threshold, percentage) ==
    IF IsAppended(cached, source_messages, threshold, percentage)
    THEN cached.result.messages
            \o SubSeq(source_messages, cached.source_message_count + 1,
                      Len(source_messages))
    ELSE source_messages

\* what a call that finds no exact match computes: the result and the cutoff
\* file it writes (<<>> when it writes none)
compute_compression(cached, source_messages, threshold, percentage, outcome, stamp) ==
    LET effective == effective_messages(cached, source_messages, threshold, percentage)
        inherits == /\ IsAppended(cached, source_messages, threshold, percentage)
                    /\ cached.result.compression_type # "None"
        token_count == estimate_token_count(effective)
        count == select_messages_to_compress_by_token(effective, token_count, percentage)
        to_compress == SubSeq(effective, 1, count)
        to_keep == SubSeq(effective, count + 1, Len(effective))
        summarized == <<SummaryMessage(stamp)>> \o to_keep
        path == Len(cutoff_files) + 1
        truncated == <<FallbackMessage(stamp, path, count)>> \o to_keep
    IN  IF token_count <= threshold
        THEN [result |-> CompressionResult(effective,
                            IF inherits THEN cached.result.compression_type ELSE "None",
                            IF inherits THEN cached.result.warning ELSE NoWarning),
              file |-> <<>>]
        ELSE IF effective = <<>>
        THEN [result |-> CompressionResult(effective, "None", NoWarning), file |-> <<>>]
        ELSE IF outcome = "summary" /\ estimate_token_count(summarized) < token_count
        THEN [result |-> CompressionResult(summarized, "AiSummarized", NoWarning),
              file |-> <<>>]
        ELSE [result |-> CompressionResult(truncated, "Truncated",
                                           CompressionWarning(path)),
              file |-> <<to_compress>>]

\* one call of compress_messages_if_needed, from the lookup of the cache to
\* cache_compression_result; persisted is whether persist_compression_result
\* wrote the row (it skips a missing table, and its error is only logged)
\* (history: compress_log keeps the arguments, the entry found, what the
\* summarization gave or would have given, the result,
\* whether the row holds this call's entry, and the cutoff files before and
\* after)
CompressMessages(source_messages, threshold, percentage, outcome, persisted) ==
    LET cached == get_compression_cache_entry
        fingerprint == calculate_messages_fingerprint(source_messages)
        stamp == Len(compress_log) + 1
        computed == compute_compression(cached, source_messages, threshold,
                                        percentage, outcome, stamp)
        hit == IsUnchanged(cached, fingerprint, threshold, percentage)
        result == IF hit THEN cached.result ELSE computed.result
        entry == CompressionCacheEntry(fingerprint, Len(source_messages), threshold,
                                       percentage, result)
    IN  /\ Len(compress_log) < MaxCompressCalls
        /\ compression_cache' = IF hit THEN cached ELSE entry
        /\ compression_state' = IF hit \/ ~persisted THEN compression_state ELSE entry
        /\ cutoff_files' = IF hit THEN cutoff_files ELSE cutoff_files \o computed.file
        /\ compress_log' = Append(compress_log,
              [messages |-> source_messages, token_threshold |-> threshold,
               compression_percentage |-> percentage, cached |-> cached,
               outcome |-> outcome,
               from_memory |-> compression_cache.present,
               persisted |-> IsUnchanged(compression_state', fingerprint, threshold,
                                         percentage),
               result |-> result, files_before |-> Len(cutoff_files),
               files_after |-> Len(cutoff_files')])
        /\ UNCHANGED <<messages, mention_statuses, saState, agent_session_id,
                       agent_message_id, pending_messages, cancellation_tokens,
                       handlers, runs, subscribed, events, enqueued, nstops, side, shared,
                       chat_runs, created>>

\* the process restarts: the in-memory cache is empty again
ClearCompressionCache ==
    /\ compression_cache.present
    /\ compression_cache' = NoEntry
    /\ UNCHANGED <<messages, mention_statuses, saState, agent_session_id,
                   agent_message_id, pending_messages, cancellation_tokens, handlers,
                   runs, subscribed, events, enqueued, nstops, side, shared, chat_runs, created,
                   compression_state, cutoff_files, compress_log>>

NextCompress ==
    \/ \E h \in Histories, t \in TokenThresholds, p \in CompressionPercentages,
          o \in SummaryOutcomes, w \in BOOLEAN : CompressMessages(h, t, p, o, w)
    \/ ClearCompressionCache

SpecCompress == Init /\ [][NextCompress]_vars

\* two successive calls made with the same history and the same thresholds,
\* the entry of the first still in memory or written to the row
SameCallAgain(k) ==
    /\ compress_log[k + 1].messages = compress_log[k].messages
    /\ compress_log[k + 1].token_threshold = compress_log[k].token_threshold
    /\ compress_log[k + 1].compression_percentage
          = compress_log[k].compression_percentage
    /\ compress_log[k + 1].from_memory \/ compress_log[k].persisted

\* C22: for an unchanged history, the second of two successive calls with the
\* same token_threshold and compression_percentage returns the result
\* messages and the warning (split_file_path) of the first and creates no
\* cutoff file, whether the entry is in memory or reloaded from the row
C22_UnchangedHistoryReusesResult ==
    \A k \in 1..(Len(compress_log) - 1) :
        SameCallAgain(k) =>
            /\ compress_log[k + 1].result.messages = compress_log[k].result.messages
            /\ compress_log[k + 1].result.warning = compress_log[k].result.warning
            /\ compress_log[k + 1].files_after = compress_log[k + 1].files_before

\* a truncated history is asked for again after the in-memory cache was
\* cleared, and the row gives the entry back
C22_ReloadedAfterClear ==
    \E k \in 1..(Len(compress_log) - 1) :
        /\ SameCallAgain(k)
        /\ compress_log[k].result.compression_type = "Truncated"
        /\ ~compress_log[k + 1].from_memory
        /\ compress_log[k + 1].result = compress_log[k].result

\* the call found an entry with its thresholds that covers a strict prefix of
\* its history: messages were only appended since
AppendedSince(call) ==
    /\ call.cached.present
    /\ call.cached.token_threshold = call.token_threshold
    /\ call.cached.compression_percentage = call.compression_percentage
    /\ call.cached.source_message_count < Len(call.messages)
    /\ calculate_messages_fingerprint(
           SubSeq(call.messages, 1, call.cached.source_message_count))
          = call.cached.source_fingerprint

\* the cached result messages followed by the appended tail
IncrementalBase(call) ==
    call.cached.result.messages
        \o SubSeq(call.messages, call.cached.source_message_count + 1,
                  Len(call.messages))

\* the messages of the covered prefix that the cached result no longer holds
AlreadyCompressed(call) ==
    {call.messages[i] : i \in 1..call.cached.source_message_count}
        \ {call.cached.result.messages[i] :
              i \in 1..Len(call.cached.result.messages)}

\* the messages the call wrote to a cutoff file
WrittenToCutoff(call) ==
    UNION {{cutoff_files[f][i] : i \in 1..Len(cutoff_files[f])} :
              f \in (call.files_before + 1)..call.files_after}

\* C23 as stated: after an append the result is the cached result followed by
\* the appended tail, and no cutoff file is written
C23_AppendedResultIsBase ==
    \A k \in 1..Len(compress_log) :
        AppendedSince(compress_log[k]) =>
            /\ compress_log[k].result.messages = IncrementalBase(compress_log[k])
            /\ compress_log[k].files_after = compress_log[k].files_before

\* C23: after an append the result is the cached result followed by the
\* appended tail whenever that base is within the token threshold (no cutoff
\* file is written then), and no message of the already compressed prefix is
\* written to a cutoff file again
C23_AppendedStartsFromBase ==
    \A k \in 1..Len(compress_log) :
        AppendedSince(compress_log[k]) =>
            /\ estimate_token_count(IncrementalBase(compress_log[k]))
                  <= compress_log[k].token_threshold
               => /\ compress_log[k].result.messages = IncrementalBase(compress_log[k])
                  /\ compress_log[k].files_after = compress_log[k].files_before
            /\ WrittenToCutoff(compress_log[k]) \cap AlreadyCompressed(compress_log[k])
                  = {}

\* a truncated history got one more message and the base still fits: the
\* result is the fallback marker, the kept message and the new one
C23_AppendedToTruncated ==
    \E k \in 1..Len(compress_log) :
        /\ AppendedSince(compress_log[k])
        /\ compress_log[k].cached.result.compression_type = "Truncated"
        /\ AlreadyCompressed(compress_log[k]) # {}
        /\ compress_log[k].result.messages = IncrementalBase(compress_log[k])
        /\ compress_log[k].result.compression_type = "Truncated"

\* ---------------------------------------------------------------------------
\* C31: the final state of a run and what its watchers reported
\* ---------------------------------------------------------------------------

\* most user messages of the exit specification
MaxExitMsgs == 2

\* Exit specification: one agent is mentioned by user messages that arrive
\* while no mention task is under way; its executors may signal their exit;
\* the child exits with either status or the wait call fails, the signal
\* reports either result or is dropped, and runs may be stopped.
ExitExecutors == {Executor(TRUE, sig, FALSE, <<>>) : sig \in BOOLEAN}

NextExit ==
    \/ /\ Cardinality(UserMessages) < MaxExitMsgs
       /\ ActiveHandlers = {}
       /\ PostUserMessage({"a"}, {})
    \/ SchedulerStep(ExitExecutors)
    \/ \E r \in DOMAIN runs, st \in {"success", "failure", "error"} : ChildExit(r, st)
    \/ \E r \in DOMAIN runs, res \in {"success", "failure", "dropped"} :
          ExitSignal(r, res)
    \/ /\ nstops < MaxStops
       /\ StopAgent("a")

SpecExit == Init /\ [][NextExit]_vars

\* the step in which the bridge of run r writes the final state
Finalizes(r) == runs[r].final = "none" /\ runs'[r].final # "none"

MaxPatches == 4

\* longest content of a patched entry
MaxPatchLen == 2

\* the entries the executor patches
PatchIndexes == {0, 1}

\* a JSON patch carrying a Thinking entry at index i
ThinkingPatchMsg(i, c) == LogItem("JsonPatch", i, c, 1)

\* the patches an executor may send: an assistant or a thinking entry at one
\* of the indexes, with any short content, the empty one included
Patches ==
    UNION {{JsonPatchMsg(i, Chars(c)), ThinkingPatchMsg(i, Chars(c))} :
              i \in PatchIndexes, c \in ContentsOver({"a", "b"}, MaxPatchLen)}

\* the bridge of run 1 before its first patch, and the subscriber's copy of
\* the content (history: applied counts the patches, indexes are the entries
\* patched so far, emptied says that an entry lost a content it had)
FirstPatchState ==
    [view |-> BridgeView([agent |-> "a", last_content |-> [i \in PatchIndexes |-> <<>>],
                          latest_assistant |-> <<>>], NoValue, NoValue),
     previous |-> <<>>, client |-> <<>>, applied |-> 0, indexes |-> {},
     emptied |-> FALSE]

PatchState == IF returned = NoCall THEN FirstPatchState ELSE returned[1]

\* the subscriber applies the events in order: a delta is appended, anything
\* else replaces the content
RECURSIVE ApplyDeltas(_, _)
ApplyDeltas(content, evs) ==
    IF evs = <<>> THEN content
    ELSE ApplyDeltas(IF Head(evs).delta THEN content \o Head(evs).content
                     ELSE Head(evs).content, Tail(evs))

\* the bridge takes the next patch from the stream
CallProcessStreamPatch(item) ==
    LET st == PatchState
        before == [st.view EXCEPT !.evs = <<>>]
        after == process_stream_patch(before, 1, item)
    IN  /\ st.applied < MaxPatches
        /\ args' = <<item>>
        /\ returned' = <<[view |-> after,
                          previous |-> before.run.last_content[item.index],
                          client |-> ApplyDeltas(st.client, after.evs),
                          applied |-> st.applied + 1,
                          indexes |-> st.indexes \cup {item.index},
                          emptied |-> \/ st.emptied
                                      \/ /\ item.content = <<>>
                                         /\ before.run.last_content[item.index] # <<>>]>>
        /\ UNCHANGED <<messages, mention_statuses, saState, agent_session_id,
                       agent_message_id, pending_messages, cancellation_tokens, handlers,
                       runs, subscribed, aside, events, enqueued, nstops, meta_writes,
                       background_compaction_inflight, compaction_tasks, snapshot_calls>>

NextPatch == \E item \in Patches : CallProcessStreamPatch(item)

SpecPatch == Init /\ [][NextPatch]_vars

\* prev is an initial part of cur
IsPrefixOf(prev, cur) ==
    /\ Len(prev) <= Len(cur)
    /\ \A i \in 1..Len(prev) : cur[i] = prev[i]

\* the last patch was answered as stated: the new suffix as a delta when the
\* content starts with the content last seen at its index, else the full
\* content as a replacement, nothing when that is empty; the content is recorded
PatchAnswered ==
    returned # NoCall =>
        LET item == args[1]
            st == returned[1]
            current == item.content
            suffix == SubSeq(current, Len(st.previous) + 1, Len(current))
        IN  /\ IF IsPrefixOf(st.previous, current)
               THEN st.view.evs = IF suffix = <<>> THEN <<>>
                                  ELSE <<AgentDelta(1, "a", suffix, TRUE, FALSE)>>
               ELSE st.view.evs = IF current = <<>> THEN <<>>
                                  ELSE <<AgentDelta(1, "a", current, FALSE, FALSE)>>
            /\ st.view.run.last_content[item.index] = current

\* every patch so far was for one entry, and the subscriber's copy is the
\* latest content of that entry
ClientFollows ==
    (returned # NoCall /\ Cardinality(returned[1].indexes) = 1) =>
        returned[1].client = args[1].content

\* C32 as stated: every patch is answered as stated, and for a single index
\* the events applied in order give the entry's latest content after every patch
C32_DeltasReproduceContent == PatchAnswered /\ ClientFollows

\* C32: every patch is answered as stated, and for a single index the events
\* applied in order give the entry's latest content after every patch, as
\* long as no patch took an entry from a non-empty content to the empty one
C32_DeltasReproduceUnlessEmptied ==
    /\ PatchAnswered
    /\ (returned # NoCall /\ ~returned[1].emptied) => ClientFollows

\* one entry went from "a" to "ab" (a delta "b") and then to "b" (a
\* replacement), and the subscriber holds "b"
C32_DeltaThenReplacement ==
    /\ returned # NoCall
    /\ returned[1].applied >= 3
    /\ returned[1].indexes = {0}
    /\ ~returned[1].emptied
    /\ returned[1].previous = Chars(<<"a", "b">>)
    /\ args[1].content = Chars(<<"b">>)
    /\ returned[1].view.evs = <<AgentDelta(1, "a", Chars(<<"b">>), FALSE, FALSE)>>
    /\ returned[1].client = Chars(<<"b">>)

\* ---------------------------------------------------------------------------
\* C33: the workspace context file under a running executor
\* ---------------------------------------------------------------------------

\* the executor of run r has not exited
ExecutorRunning(r) == runs[r].poller = "poll"

\* C33: while the executor of a run is running, messages.jsonl holds a full,
\* uncompressed history: no background compaction task has rewritten it
C33_RunningContextStaysFull ==
    \A r \in DOMAIN runs : ExecutorRunning(r) => ~context_file.compacted

\* ---------------------------------------------------------------------------
\* C34: whose cancellation token an exit removes
\* ---------------------------------------------------------------------------

\* run r inserted a token, no later run of its agent has replaced it, its
\* child has not been seen gone, its exit signal has not completed it, and
\* it was not stopped
HoldsToken(r) ==
    /\ runs[r].has_token
    /\ \A q \in DOMAIN runs : q > r => runs[q].agent # runs[r].agent
    /\ runs[r].poller = "poll"
    /\ ~runs[r].finished_from_signal
    /\ ~runs[r].cancelled

\* C34: while a run is in flight and has not been stopped, the map holds the
\* token it inserted, whatever earlier runs of its agent do
C34_TokenKeptWhileInFlight ==
    \A r \in DOMAIN runs : HoldsToken(r) => cancellation_tokens[runs[r].agent] = r

\* ---------------------------------------------------------------------------
\* C35: the truncation fallback of compress_messages_if_needed
\* ---------------------------------------------------------------------------

\* the call found the entry of its very history and thresholds
AnsweredFromCache(call) ==
    /\ call.cached.present
    /\ call.cached.source_fingerprint = calculate_messages_fingerprint(call.messages)
    /\ call.cached.token_threshold = call.token_threshold
    /\ call.cached.compression_percentage = call.compression_percentage

\* the messages the call had to fit into the threshold
BaseOf(call) == IF AppendedSince(call) THEN IncrementalBase(call) ELSE call.messages

\* the call had to compress and got no summary, or one that saves nothing
\* (a summary message and the kept messages weigh at least as much as the base)
FallsBack(call) ==
    /\ ~AnsweredFromCache(call)
    /\ estimate_token_count(BaseOf(call)) > call.token_threshold
    /\ \/ call.outcome = "none"
       \/ LET n == select_messages_to_compress_by_token(
                       BaseOf(call), estimate_token_count(BaseOf(call)),
                       call.compression_percentage)
          IN  SummaryMessage(0).tokens
                 + estimate_token_count(SubSeq(BaseOf(call), n + 1, Len(BaseOf(call))))
                 >= estimate_token_count(BaseOf(call))

\* C35: a call that has to compress and gets no usable summary returns a
\* Truncated result: the fallback summary message followed by exactly the
\* kept suffix, with the warning COMPRESSION_FALLBACK that names the cutoff
\* file; the compressed prefix is the content of that file, which is the one
\* new file and has the smallest unused index
C35_FallbackTruncates ==
    \A k \in 1..Len(compress_log) :
        LET call == compress_log[k]
            base == BaseOf(call)
            first == Head(call.result.messages)
        IN  FallsBack(call) =>
                /\ call.result.compression_type = "Truncated"
                /\ call.result.messages # <<>>
                /\ first.kind = "fallback"
                /\ first.path = call.files_before + 1
                /\ call.files_after = call.files_before + 1
                /\ call.result.warning = CompressionWarning(first.path)
                /\ cutoff_files[first.path] # <<>>
                /\ cutoff_files[first.path] \o Tail(call.result.messages) = base

\* a second truncation, of a call whose summary saved nothing: the first
\* cutoff file exists, the call archives a prefix to the next one and keeps a
\* suffix
C35_SecondCutoffFile ==
    \E k \in 1..Len(compress_log) :
        /\ FallsBack(compress_log[k])
        /\ compress_log[k].outcome = "summary"
        /\ compress_log[k].files_before = 1
        /\ compress_log[k].files_after = 2
        /\ Len(compress_log[k].result.messages) > 1
        /\ compress_log[k].result.compression_type = "Truncated"

\* ---------------------------------------------------------------------------
\* C36: select_messages_to_compress_by_token as a function of its arguments
\* ---------------------------------------------------------------------------

MaxSelectLen == 3
MaxMessageTokens == 2

RECURSIVE MessagesOfLen(_)
MessagesOfLen(n) ==
    IF n = 0 THEN {<<>>}
    ELSE {Append(m, SourceMessage(0, t)) : m \in MessagesOfLen(n - 1),
                                           t \in 0..MaxMessageTokens}

SelectMessages == UNION {MessagesOfLen(n) : n \in 0..MaxSelectLen}

\* total_tokens is an argument: the callers pass the estimate of the
\* messages, the function accepts any u32
SelectTotals == 0..(MaxSelectLen * MaxMessageTokens + 1)

SelectPercentages == {1, 34, 50, 67, 100}

InitSelect ==
    /\ InitCommon
    /\ subscribed = FALSE
    /\ args \in {<<msgs, total, percentage>> : msgs \in SelectMessages,
                                               total \in SelectTotals,
                                               percentage \in SelectPercentages}
    /\ returned = NoCall

CallSelect ==
    /\ returned = NoCall
    /\ returned' = <<select_messages_to_compress_by_token(args[1], args[2], args[3])>>
    /\ UNCHANGED <<messages, mention_statuses, saState, agent_session_id,
                   agent_message_id, pending_messages, cancellation_tokens, handlers,
                   runs, subscribed, aside, events, enqueued, nstops, meta_writes,
                   background_compaction_inflight, compaction_tasks, snapshot_calls,
                   args>>

NextSelect == CallSelect

SpecSelect == InitSelect /\ [][NextSelect]_vars

\* the token count of one message as the selection counts it: the estimate
\* of the message alone, at least 1
PerMessageTokens(msg) == IF msg.tokens < 1 THEN 1 ELSE msg.tokens

RECURSIVE CumulativeTokens(_, _)
CumulativeTokens(msgs, k) ==
    IF k = 0 THEN 0 ELSE CumulativeTokens(msgs, k - 1) + PerMessageTokens(msgs[k])

\* ceil(total * percentage / 100) as the least integer not below the quotient
CeilOfShare(total, percentage) ==
    CHOOSE c \in 0..total : /\ 100 * c >= total * percentage
                            /\ \A d \in 0..total : 100 * d >= total * percentage => c <= d

\* the prefixes that reach the share
ReachingPrefixes(msgs, total, percentage) ==
    {k \in 0..Len(msgs) : CumulativeTokens(msgs, k) >= CeilOfShare(total, percentage)}

\* the length the claim names: the shortest reaching prefix, all messages
\* when no prefix reaches the share, one message when the empty prefix does
ShortestReaching(msgs, total, percentage) ==
    LET reaching == ReachingPrefixes(msgs, total, percentage)
        shortest == IF reaching = {} THEN Len(msgs)
                    ELSE CHOOSE k \in reaching : \A j \in reaching : k <= j
    IN  IF shortest < 1 THEN 1 ELSE shortest

\* C36: for a non-empty sequence and a percentage in 1..100 the function
\* returns the length of the shortest prefix whose cumulative per-message
\* token count reaches ceil(total * percentage / 100), never less than 1
\* message and never more than all messages
C36_ShortestPrefixReachingShare ==
    (returned # NoCall /\ args[1] # <<>>) =>
        /\ returned[1] \in 1..Len(args[1])
        /\ returned[1] = ShortestReaching(args[1], args[2], args[3])

\* a share that rounds up: 67 percent of the four tokens of three messages
\* is reached by the second message and not by the first, and the call
\* returns the prefix of two
C36_ProperPrefixSelected ==
    /\ returned # NoCall
    /\ Len(args[1]) = 3
    /\ args[2] = estimate_token_count(args[1])
    /\ args[2] = 4
    /\ args[3] = 67
    /\ returned[1] = 2
    /\ 1 \notin ReachingPrefixes(args[1], args[2], args[3])

\* ---------------------------------------------------------------------------
\* C37: the agents AI summarization tries, and the all-running skip
\* ---------------------------------------------------------------------------

\* the session agents of the session in the order of find_all_for_session
\* (created_at ASC); a session has the first n of them
MemberOrder == <<"a", "b", "c">>

SessionMembers == {SubSeq(MemberOrder, 1, n) : n \in 0..Len(MemberOrder)}

\* the rows find_all_for_session returns now
find_all_for_session(members) ==
    [i \in 1..Len(members) |-> [agent |-> members[i], state |-> saState[members[i]]]]

all_agents_running(session_agents) ==
    /\ session_agents # <<>>
    /\ \A i \in 1..Len(session_agents) : session_agents[i].state = "Running"

summary_agent_priority(state) ==
    CASE state = "Idle" -> 0
      [] state = "WaitingApproval" -> 1
      [] state = "Dead" -> 2
      [] state = "Running" -> 3

\* sort_by_key is an insertion of each element behind the elements whose key
\* is not greater (a stable sort)
RECURSIVE sort_by_priority(_)
sort_by_priority(agents) ==
    IF agents = <<>> THEN <<>>
    ELSE LET sorted == sort_by_priority(SubSeq(agents, 1, Len(agents) - 1))
             last == agents[Len(agents)]
             before == {i \in 1..Len(sorted) :
                           summary_agent_priority(sorted[i].state)
                              <= summary_agent_priority(last.state)}
             at == IF before = {} THEN 0
                   ELSE CHOOSE i \in before : \A j \in before : j <= i
         IN  SubSeq(sorted, 1, at) \o <<last>> \o SubSeq(sorted, at + 1, Len(sorted))

\* (as_listed: the candidates in the order of the list)
as_listed(session_agents) == session_agents
prioritize_summary_agents(session_agents) == sort_by_priority(session_agents)

\* wait_for_idle_agent_if_needed and its caller's match: the list given, or
\* the rows read again when all of several agents are running and the read
\* succeeds
wait_for_idle_agent_if_needed(session_agents, members, read_ok) ==
    IF ~all_agents_running(session_agents) THEN session_agents
    ELSE IF Len(session_agents) = 1 THEN session_agents
    ELSE IF read_ok THEN find_all_for_session(members)
    ELSE session_agents

\* build_compacted_context reads the session agents; compress_messages_if_needed
\* calls try_summarize_with_agents only with a non-empty list
ReadSessionAgents(members) ==
    /\ summarization.phase = "none"
    /\ summarization' =
          [summarization EXCEPT !.phase = IF members = <<>> THEN "done" ELSE "read",
                                !.session_agents = find_all_for_session(members)]
    /\ UNCHANGED <<messages, mention_statuses, saState, agent_session_id,
                   agent_message_id, pending_messages, cancellation_tokens, handlers,
                   runs, subscribed, events, enqueued, nstops, side, chat_runs,
                   created, compression, context_file, streams,
                   compaction_ended>>

\* try_summarize_with_agents up to its loop
TrySummarizeWithAgents(read_ok) ==
    LET members == [i \in 1..Len(summarization.session_agents) |->
                        summarization.session_agents[i].agent]
        candidate_agents ==
            wait_for_idle_agent_if_needed(summarization.session_agents, members, read_ok)
        skipped == all_agents_running(candidate_agents)
    IN  /\ summarization.phase = "read"
        /\ summarization' =
              [summarization EXCEPT
                  !.phase = IF skipped THEN "done" ELSE "loop",
                  !.candidate_agents = candidate_agents,
                  !.prioritized = IF skipped THEN <<>>
                                  ELSE prioritize_summary_agents(candidate_agents)]
        /\ UNCHANGED <<messages, mention_statuses, saState, agent_session_id,
                       agent_message_id, pending_messages, cancellation_tokens,
                       handlers, runs, subscribed, events, enqueued, nstops, side,
                       chat_runs, created, compression, context_file, streams,
                       compaction_ended>>

\* what becomes of one candidate: its chat agent is not found, the executor
\* is not spawned (no profile, spawn error), the executor fails or gives no
\* summary, the executor gives a summary
SummaryAttempts == {"not_found", "not_spawned", "failed", "summary"}

\* one turn of the loop
SummarizeWithNextAgent(attempt) ==
    LET session_agent == summarization.prioritized[summarization.next]
        last == summarization.next = Len(summarization.prioritized)
    IN  /\ summarization.phase = "loop"
        /\ summarization.next <= Len(summarization.prioritized)
        /\ summarization' =
              [summarization EXCEPT
                  !.phase = IF attempt = "summary" \/ last THEN "done" ELSE "loop",
                  !.next = @ + 1,
                  !.tried = Append(@, session_agent),
                  !.spawned = IF attempt \in {"failed", "summary"}
                              THEN Append(@, session_agent) ELSE @,
                  !.summary = attempt = "summary"]
        /\ UNCHANGED <<messages, mention_statuses, saState, agent_session_id,
                       agent_message_id, pending_messages, cancellation_tokens,
                       handlers, runs, subscribed, events, enqueued, nstops, side,
                       chat_runs, created, compression, context_file, streams,
                       compaction_ended>>

\* ChatSessionAgent::update_state by the runs of the session, at any time
UpdateState(a, state) ==
    /\ saState[a] # state
    /\ saState' = [saState EXCEPT ![a] = state]
    /\ UNCHANGED <<messages, mention_statuses, agent_session_id, agent_message_id,
                   pending_messages, cancellation_tokens, handlers, runs, subscribed,
                   events, enqueued, nstops, side, aside>>

NextSummarize ==
    \/ \E members \in SessionMembers : ReadSessionAgents(members)
    \/ \E read_ok \in BOOLEAN : TrySummarizeWithAgents(read_ok)
    \/ \E attempt \in SummaryAttempts : SummarizeWithNextAgent(attempt)
    \/ \E a \in Agents, state \in States : UpdateState(a, state)

SpecSummarize == Init /\ [][NextSummarize]_vars

\* where the row of the agent stands in the list the call decided on
PlaceInCandidates(row) ==
    CHOOSE i \in 1..Len(summarization.candidate_agents) :
        summarization.candidate_agents[i] = row

\* the rank the claim gives a state
StateRank(state) ==
    IF state = "Idle" THEN 1
    ELSE IF state = "WaitingApproval" THEN 2
    ELSE IF state = "Dead" THEN 3
    ELSE 4

\* every agent of the list the call decided on is Running
EveryCandidateRunning ==
    /\ summarization.candidate_agents # <<>>
    /\ \A i \in 1..Len(summarization.candidate_agents) :
           summarization.candidate_agents[i].state = "Running"

\* C37: the agents are tried in the order Idle, WaitingApproval, Dead,
\* Running, agents of one state in the order of the list, no agent twice and
\* none left out before the call ends without a summary; when every agent of
\* the non-empty list is Running no executor is spawned and no summary is
\* returned
C37_TriedByStateThenListOrder ==
    LET tried == summarization.tried
    IN  /\ \A i, j \in 1..Len(tried) :
              i < j =>
                 /\ StateRank(tried[i].state) <= StateRank(tried[j].state)
                 /\ StateRank(tried[i].state) = StateRank(tried[j].state)
                       => PlaceInCandidates(tried[i]) < PlaceInCandidates(tried[j])
        /\ \A i \in 1..Len(tried) :
              \E k \in 1..Len(summarization.candidate_agents) :
                  summarization.candidate_agents[k] = tried[i]
        /\ \A i \in 1..Len(summarization.spawned) :
              \E k \in 1..Len(tried) : tried[k] = summarization.spawned[i]
        /\ (summarization.phase = "done" /\ ~summarization.summary
               /\ ~EveryCandidateRunning)
              => Len(tried) = Len(summarization.candidate_agents)
        /\ (summarization.phase \in {"loop", "done"} /\ EveryCandidateRunning)
              => /\ summarization.phase = "done"
                 /\ summarization.spawned = <<>>
                 /\ ~summarization.summary

\* three agents listed as Running, Idle, Idle: the two idle agents were tried
\* first, in the order of the list, and the running one last
C37_RunningTriedLast ==
    /\ summarization.phase = "done"
    /\ Len(summarization.candidate_agents) = 3
    /\ summarization.candidate_agents[1].state = "Running"
    /\ summarization.candidate_agents[2].state = "Idle"
    /\ summarization.candidate_agents[3].state = "Idle"
    /\ summarization.tried = <<summarization.candidate_agents[2],
                               summarization.candidate_agents[3],
                               summarization.candidate_agents[1]>>
    /\ Len(summarization.spawned) = 3

\* ---------------------------------------------------------------------------
\* C38: a compaction task that ends releases the marker of the session
\* ---------------------------------------------------------------------------

\* the step ends a compaction task
CompactionTaskEnds == compaction_tasks' < compaction_tasks

\* the step is a trigger: a new call of spawn_background_context_compaction
TriggersOf(before, after) == IF before \subseteq after THEN after \ before ELSE {}

\* the step takes a call from its check to the spawn of a task
SpawnsFor(m, a) ==
    /\ SnapshotCall(m, a, "checked") \in snapshot_calls
    /\ SnapshotCall(m, a, "checked") \notin snapshot_calls'

\* C38: a step that ends a compaction task, in failure or not, leaves the
\* session without the in-flight marker and changes nothing of the mention
\* tasks, the runs, the agent states and the mention statuses; a trigger that
\* finds no marker goes on to spawn, and its spawn starts a new task
C38_EndedTaskReleasesMarker ==
    [][ /\ CompactionTaskEnds =>
              /\ ~background_compaction_inflight'
              /\ handlers' = handlers
              /\ runs' = runs
              /\ saState' = saState
              /\ mention_statuses' = mention_statuses
              /\ snapshot_calls' = snapshot_calls
        /\ \A c \in TriggersOf(snapshot_calls, snapshot_calls') :
              ~background_compaction_inflight => c.pc = "checked"
        /\ \A p \in Mentions :
              SpawnsFor(p[1], p[2]) =>
                 /\ compaction_tasks' = compaction_tasks + 1
                 /\ background_compaction_inflight'
                 /\ SnapshotCall(p[1], p[2], "returned") \in snapshot_calls'
      ]_vars

\* two messages, each mentioning one agent: the task of the first has failed,
\* the run of the first was started all the same, and the trigger of the
\* second has spawned the task that is in flight
C38_NewTaskAfterFailure ==
    /\ compaction_ended = "failed"
    /\ compaction_tasks = 1
    /\ background_compaction_inflight
    /\ Len(messages) = 2
    /\ \A m \in DOMAIN messages : messages[m].mentions = {"a"}
    /\ \E r \in DOMAIN runs : runs[r].msg = 1
    /\ SnapshotCall(2, "a", "returned") \in snapshot_calls

\* ---------------------------------------------------------------------------
\* C39: the late finalization of a stopped run and the run started after it
\* ---------------------------------------------------------------------------

\* a run started later for the same session agent has not been finalized
NewerRunInFlight(r) ==
    \E n \in DOMAIN runs :
        /\ n > r
        /\ runs[n].agent = runs[r].agent
        /\ runs[n].final = "none"

\* the step in which the bridge of run r pops or clears the pending queue
HandlesQueue(r) == runs[r].bridge = "queue" /\ runs'[r].bridge # "queue"

\* C39: the finalization of a run that stop_agent has stopped leaves the state
\* of the session agent and its pending queue as they are while a newer run
\* of that session agent is in flight
C39_LateFinalizationSparesNewerRun ==
    [][ \A r \in DOMAIN runs :
           (runs[r].cancelled /\ NewerRunInFlight(r)) =>
              /\ Finalizes(r) => saState'[runs[r].agent] = saState[runs[r].agent]
              /\ HandlesQueue(r) =>
                    pending_messages'[runs[r].agent] = pending_messages[runs[r].agent]
      ]_vars

\* ---------------------------------------------------------------------------
\* C40: the broadcast channel of the session under concurrent first use
\* ---------------------------------------------------------------------------

MaxStreamCalls == 4

\* subscribe and emit both begin with sender_for
StreamCallers == {"subscribe", "emit"}

StreamCallsMade ==
    Len(streams.receivers) + Len(streams.sent) + Cardinality(streams.calls)

\* a sender_for call that found no entry: who called, and how many
\* subscribers had their receiver when it was called
SenderForCall(caller, id, subscribers) ==
    [caller |-> caller, id |-> id, subscribers |-> subscribers]

\* what the caller does with the sender of the channel: subscribe takes a
\* receiver of it, emit sends the event on it (the result of send is dropped)
use_sender(caller, channel, subscribers) ==
    IF caller = "subscribe"
    THEN [streams EXCEPT !.receivers = Append(@, channel)]
    ELSE [streams EXCEPT !.sent = Append(@, [channel |-> channel,
                                             subscribers |-> subscribers])]

\* sender_for up to the end of streams.get: an entry is cloned and used, or
\* the call goes on to create a channel
SenderForGet(caller) ==
    /\ StreamCallsMade < MaxStreamCalls
    /\ streams' =
          IF streams.entry # 0
          THEN use_sender(caller, streams.entry, Len(streams.receivers))
          ELSE [streams EXCEPT !.calls = @ \cup
                   {SenderForCall(caller, StreamCallsMade + 1, Len(streams.receivers))}]
    /\ UNCHANGED <<messages, mention_statuses, saState, agent_session_id,
                   agent_message_id, pending_messages, cancellation_tokens, handlers,
                   runs, subscribed, events, enqueued, nstops, side, chat_runs,
                   created, compression, context_file, summarization,
                   compaction_ended>>

\* broadcast::channel(1024) and streams.insert, which replaces an entry
\* another call has inserted since; the caller uses the sender it created
SenderForInsert(call) ==
    LET channel == streams.channels + 1
        inserted == [use_sender(call.caller, channel, call.subscribers) EXCEPT
                        !.entry = channel, !.channels = channel]
    IN  /\ call \in streams.calls
        /\ streams' = [inserted EXCEPT !.calls = streams.calls \ {call}]
        /\ UNCHANGED <<messages, mention_statuses, saState, agent_session_id,
                       agent_message_id, pending_messages, cancellation_tokens,
                       handlers, runs, subscribed, events, enqueued, nstops, side,
                       chat_runs, created, compression, context_file, summarization,
                       compaction_ended>>

NextStreams ==
    \/ \E caller \in StreamCallers : SenderForGet(caller)
    \/ \E call \in streams.calls : SenderForInsert(call)

SpecStreams == Init /\ [][NextStreams]_vars

\* C40: every event emitted after a subscribe has returned is sent on the
\* channel that subscriber listens to
C40_EmitReachesEarlierSubscribers ==
    \A e \in 1..Len(streams.sent) :
        \A s \in 1..streams.sent[e].subscribers :
            streams.receivers[s] = streams.sent[e].channel

====
